---------------------------- MODULE Spec2Model ----------------------------
(***************************************************************************)
(* State-machine model of the touchscreen/display mapping classes of the   *)
(* XPT2046_Touchscreen_TT library:                                         *)
(*   TS_Display      (src/src/TS_Display.h, src/src/TS_Display.cpp)        *)
(*   TS_ILI9341_map  (src/src/TS_ILI9341_map.h, src/src/TS_ILI9341_map.cpp)*)
(*                                                                         *)
(* Spec     the touch/release event machine of TS_Display::getTouchEvent,   *)
(*          driven by a millisecond clock, pressure samples and the         *)
(*          parameter setters.                                              *)
(* SpecMap  the coordinate mapping of both classes.                         *)
(* SpecLive the event machine with a clock that never stops, under weak     *)
(*          fairness of the clock and of polling.                           *)
(***************************************************************************)
EXTENDS Integers, Sequences, FiniteSets, TLC

(***************************************************************************)
(* Integer helpers.                                                        *)
(***************************************************************************)
Abs(n) == IF n < 0 THEN -n ELSE n

\* C integer division: the quotient is truncated toward zero.
TruncDiv(n, d) ==
  LET q == Abs(n) \div Abs(d)
  IN  IF (n < 0) # (d < 0) THEN -q ELSE q

\* Conversion of a long to int16_t (the pointer targets *x, *y, *TSx, *TSy
\* are int16_t): the value modulo 2^16, in -32768..32767.
ToInt16(v) == ((v + 32768) % 65536) - 32768

(***************************************************************************)
(* uint32_t values (millis(), _msTime, _debounceMS_TR) are kept at their    *)
(* width as two 16-bit halves <<hi, lo>>, value hi * 2^16 + lo, with the    *)
(* arithmetic modulo 2^32.                                                  *)
(***************************************************************************)
U32(n) == << (n \div 65536) % 65536, n % 65536 >>

\* a + d modulo 2^32, d a natural below 2^31.
U32Add(a, d) ==
  LET lo == a[2] + (d % 65536)
      hi == a[1] + (d \div 65536) + (lo \div 65536)
  IN  << hi % 65536, lo % 65536 >>

\* a - b modulo 2^32 (unsigned subtraction).
U32Sub(a, b) ==
  LET lo == a[2] - b[2]
      borrow == IF lo < 0 THEN 1 ELSE 0
      hi == a[1] - b[1] - borrow
  IN  << (hi + 65536) % 65536, (lo + 65536) % 65536 >>

\* a < b on uint32_t.
U32Lt(a, b) == a[1] < b[1] \/ (a[1] = b[1] /\ a[2] < b[2])

U32Geq(a, b) == ~U32Lt(a, b)

(***************************************************************************)
(* Program constants.                                                      *)
(***************************************************************************)
TS_UL_SHORT == 3800
TS_UL_LONG == 3700
TS_LR_SHORT == 275
TS_LR_LONG == 165
TS_OFFSET == 4095

DEF_DEBOUNCE_MS_TR == 20
DEF_MIN_TOUCH_PRES == 5
DEF_MAX_RELEASE_PRES == 0

\* eTouchEvent; NO_RETURN stands for "getTouchEvent has not returned yet".
TS_UNCERTAIN == "TS_UNCERTAIN"
TS_NO_TOUCH == "TS_NO_TOUCH"
TS_TOUCH_PRESENT == "TS_TOUCH_PRESENT"
TS_TOUCH_EVENT == "TS_TOUCH_EVENT"
TS_RELEASE_EVENT == "TS_RELEASE_EVENT"
NO_RETURN == "NO_RETURN"

eTouchEvent ==
  {TS_UNCERTAIN, TS_NO_TOUCH, TS_TOUCH_PRESENT, TS_TOUCH_EVENT, TS_RELEASE_EVENT}

EdgeEvents == {TS_TOUCH_EVENT, TS_RELEASE_EVENT}
LevelStates == {TS_UNCERTAIN, TS_NO_TOUCH, TS_TOUCH_PRESENT}

(***************************************************************************)
(* Bounds of the model and the input sets of the operations.               *)
(***************************************************************************)
\* Milliseconds of clock time a behaviour of Spec covers.
MaxTime == 45

\* Milliseconds the clock is short of wrapping to 0 in the late start.
WrapLead == 10

\* Milliseconds that pass between two calls.
Delays == {0, 5, 20}

\* millis() at construction: 0, or WrapLead ms before the 32-bit wrap.
StartTimes == { U32(0), U32Sub(U32(0), U32(WrapLead)) }

\* Native panel sizes <<WIDTH, HEIGHT>> of the display (rotation 0).
Panels == { <<240, 320>> }
MapPanels == { <<240, 320>>, <<4, 3>> }

\* Samples getPoint() returns in Spec: <<x, y, z>>.
PollPoints == { <<3790, 290>> }
PollPressures == {0, 3, 10}

\* Arguments of setTouchReleaseParams: <<debounceMS_TR, min, max>>.
\* The last one has min <= max (no hysteresis band).
TouchReleaseParams == { <<20, 5, 0>>, <<0, 5, 0>>, <<10, 3, 3>> }

\* Arguments of setTS_calibration: <<LR_X, LR_Y, UL_X, UL_Y>>.
TouchCalibrations == { <<5, 400, 5, 3700>> }

\* Arguments of setTS_calibration in SpecMap: a usual calibration, one with
\* UL below LR, one with equal X bounds, one with a span of 1 (X) and a span
\* below the pixel extent (Y), and the widest one.
MapCalibrations ==
  { <<300, 400, 3900, 3700>>, <<3800, 3800, 275, 275>>, <<5, 400, 5, 3700>>,
    <<1, 100, 0, 0>>, <<-32768, -32768, 32767, 32767>> }
IliCalibrations == { <<300, 400, 3900, 3700>> }

\* Touchscreen points <<TSx, TSy>> and display points <<x, y>> mapped in SpecMap.
MapPoints == { <<0, 4095>>, <<3790, 290>>, <<3801, 274>>, <<2000, 2000>> }
DisplayPoints == { <<0, 0>>, <<100, 200>>, <<-5, 400>> }

\* Arguments of setTS_calibration in SpecCal: a usual calibration, one with
\* UL = LR on both axes, one with UL below LR.
CalCalibrations ==
  { <<300, 400, 3900, 3700>>, <<7, 7, 7, 7>>, <<3800, 3800, 275, 275>> }

\* pixelOffset of GetCalibration_UL_LR: up to MaxOffset, a quarter of the
\* shorter side of the display, and two beyond it.
MaxOffset == 60
Offsets == {0, 10, 50, MaxOffset, 98, 119}
IliOffsets == {10, 119}

\* Arguments of findTS_calibration that are not reference points:
\* <<x_UL, y_UL, x_LR, y_LR, TSx_UL, TSy_UL, TSx_LR, TSy_LR>>: two usual
\* points, two points with equal x, two points with equal y and equal
\* touchscreen y, two points whose x bounds leave the range of int16_t, and
\* two points whose x scale, 250 / 15, is not a binary fraction.
FindArgs ==
  { <<10, 10, 229, 309, 3674, 3800, 457, 500>>,
    <<10, 10, 10, 309, 3674, 3800, 457, 500>>,
    <<10, 200, 229, 200, 3674, 500, 457, 500>>,
    <<100, 10, 101, 309, -32768, 3800, 32767, 500>>,
    <<0, 10, 15, 309, 39, 3800, 289, 500>> }

\* What a division by zero in map() evaluates to where it does not trap.
DivZeroResults == {-1, 0}


Rotations == 0 .. 3

\* The display rotations Spec starts with.
TouchRotations == {1}

(***************************************************************************)
(* State.                                                                  *)
(***************************************************************************)
VARIABLES
  \* environment
  now,                \* millis() at the last call, a uint32_t
  t0,                 \* millis() when the instance was constructed
  rotation,           \* the display's getRotation()
  panel,              \* the display's native <<WIDTH, HEIGHT>>
  \* TS_Display
  began,              \* begin() has set _ts and _disp
  TS_UL_X, TS_UL_Y, TS_LR_X, TS_LR_Y,
  debounceMS_TR, minTouchPres, maxReleasePres,
  lastEventWasTouch, msTime,
  pixelsX, pixelsY,
  \* TS_ILI9341_map: [began, TS_UL_X, TS_UL_Y, TS_LR_X, TS_LR_Y, pixelsX, pixelsY]
  ili,
  \* what the caller sees
  op,                 \* the last call
  ret,                \* the eTouchEvent it returned (NO_RETURN: none)
  out,                \* its arguments and the values it wrote (for begin:
                      \* prior, the bounds it overwrote)
  prev,               \* the mapping call made right before it, or NoCall
  fault,              \* a division by zero has been executed
  \* history of the events returned
  edgeBalance,        \* TS_TOUCH_EVENTs minus TS_RELEASE_EVENTs returned since begin()
  edgePoll,           \* <<event, millis()>> of the latest getTouchEvent if it
                      \* returned an edge event, else NoEdge
  prevEdge,           \* at a poll: the edge event the poll before it returned and
                      \* the ms between the two polls (a uint32_t), or NoEdge
  diffStart,          \* millis() at the first poll of the current run of polls
                      \* classified opposite to the confirmed state, or NoTime
  beganAt,            \* millis() at the latest begin(), kept up to the poll that
                      \* returns the first edge event after it; NoTime otherwise
  timerStart,         \* millis() at the latest of: construction, begin(), a poll
                      \* classified as the confirmed state, an edge event
  sinceEdge,          \* ms since the latest edge event was returned, counted up
                      \* to MaxDebounce; NoGap from begin() to the first one
  edgeGap,            \* at a poll that returned an edge event: sinceEdge as the
                      \* poll found it; NoGap after any other call
  heldAtBegin         \* the confirmed state was touch when the latest begin()
                      \* was called; kept as long as beganAt is

envVars == << t0, rotation, panel >>
calVars == << TS_UL_X, TS_UL_Y, TS_LR_X, TS_LR_Y >>
paramVars == << debounceMS_TR, minTouchPres, maxReleasePres >>
timerVars == << lastEventWasTouch, msTime >>
pixelVars == << pixelsX, pixelsY >>
histVars == << edgeBalance, edgePoll, prevEdge, diffStart, beganAt, timerStart,
              sinceEdge, edgeGap, heldAtBegin >>
vars == << now, envVars, began, calVars, paramVars, timerVars, pixelVars, ili,
           op, ret, out, prev, fault, histVars >>

NoTime == << -1, -1 >>
NoGap == -1
NoEdge == << NO_RETURN, NoTime >>
NoCall == [op |-> "none"]
NoOutput == [none |-> TRUE]

\* A uint32_t below 2^31 as a number.
Ms(d) == d[1] * 65536 + d[2]

\* Milliseconds since construction (below 2^31 in every behaviour of Spec).
Age == Ms(U32Sub(now, t0))

(***************************************************************************)
(* The display (Adafruit_GFX): width() and height() follow the rotation.    *)
(***************************************************************************)
width == IF rotation % 2 = 1 THEN panel[2] ELSE panel[1]
height == IF rotation % 2 = 1 THEN panel[1] ELSE panel[2]

(***************************************************************************)
(* Arduino's map(): long arithmetic, the quotient truncated toward zero.    *)
(* With int16_t arguments no intermediate value leaves the range of a       *)
(* 32-bit long. Where in_max = in_min the division is by zero: dz is what   *)
(* the build produces there.                                                *)
(***************************************************************************)
\* map() with the quotient rounded toward minus infinity.
FloorDiv(n, d) == IF d > 0 THEN n \div d ELSE (-n) \div (-d)

map_Floor(xv, in_min, in_max, out_min, out_max, dz) ==
  IF in_max = in_min
    THEN dz
    ELSE FloorDiv((xv - in_min) * (out_max - out_min), in_max - in_min) + out_min

map(xv, in_min, in_max, out_min, out_max, dz) ==
  IF in_max = in_min
    THEN dz
    ELSE TruncDiv((xv - in_min) * (out_max - out_min), in_max - in_min) + out_min

\* mapTStoDisplay with the lower-right bound mapped to the last pixel.
mapTStoDisplay_LastPixel(TSx, TSy, dzx, dzy) ==
  << ToInt16(map(TSx, TS_UL_X, TS_LR_X, 0, pixelsX - 1, dzx)),
     ToInt16(map(TSy, TS_UL_Y, TS_LR_Y, 0, pixelsY - 1, dzy)) >>

\* TS_Display::mapTStoDisplay: <<*x, *y>>.
mapTStoDisplay(TSx, TSy, dzx, dzy) ==
  << ToInt16(map(TSx, TS_UL_X, TS_LR_X, 0, pixelsX, dzx)),
     ToInt16(map(TSy, TS_UL_Y, TS_LR_Y, 0, pixelsY, dzy)) >>

\* mapDisplayToTS with the two calibration bounds exchanged.
mapDisplayToTS_Swapped(xv, yv, dzx, dzy) ==
  << ToInt16(map(xv, 0, pixelsX, TS_LR_X, TS_UL_X, dzx)),
     ToInt16(map(yv, 0, pixelsY, TS_LR_Y, TS_UL_Y, dzy)) >>

\* TS_Display::mapDisplayToTS: <<*TSx, *TSy>>.
mapDisplayToTS(xv, yv, dzx, dzy) ==
  << ToInt16(map(xv, 0, pixelsX, TS_UL_X, TS_LR_X, dzx)),
     ToInt16(map(yv, 0, pixelsY, TS_UL_Y, TS_LR_Y, dzy)) >>

\* What the division of map() by in_max - in_min can evaluate to.
DivOutcomes(in_min, in_max) == IF in_max = in_min THEN DivZeroResults ELSE {0}

\* The divisions by zero mapTStoDisplay executes in the current state.
TStoDisplayDividesByZero == TS_LR_X = TS_UL_X \/ TS_LR_Y = TS_UL_Y
DisplayToTSDividesByZero == pixelsX = 0 \/ pixelsY = 0

(***************************************************************************)
(* float: IEEE 754 binary32, every operation rounded to nearest, ties to    *)
(* even. A float is << s, m, e >>: s = 1 or -1 and the value is             *)
(* s * m * 2^e with m = 0 or 2^23 <= m < 2^24; s = 0 is an infinity or a    *)
(* NaN. The values findTS_calibration computes stay far from the subnormal  *)
(* range and from overflow.                                                 *)
(***************************************************************************)
FNotFinite == << 0, 0, 0 >>
FZero == << 1, 0, 0 >>

RECURSIVE BitLen(_)
BitLen(n) == IF n = 0 THEN 0 ELSE 1 + BitLen(n \div 2)

\* The float of value s * m * 2^e, for 0 < m < 2^24 (no rounding needed).
FNormal(s, m, e) ==
  LET k == 24 - BitLen(m) IN << s, m * 2^k, e - k >>

\* (float) i, for an int of magnitude below 2^24: exact.
FFromInt(i) == IF i = 0 THEN FZero ELSE FNormal(IF i < 0 THEN -1 ELSE 1, Abs(i), 0)

\* The float nearest to s * (q + r/d) * 2^e, for 2^23 <= q < 2^24, 0 <= r < d.
FRound(s, q, r, d, e) ==
  LET up == 2 * r > d \/ (2 * r = d /\ q % 2 = 1)
      m == IF up THEN q + 1 ELSE q
  IN  IF m = 2^24 THEN << s, 2^23, e + 1 >> ELSE << s, m, e >>

\* << floor(n0 * 2^n / d), remainder >> given q = floor(n0 / d), r = n0 % d.
RECURSIVE DivBits(_, _, _, _)
DivBits(q, r, d, n) ==
  IF n = 0 THEN << q, r >>
  ELSE IF 2 * r >= d THEN DivBits(2 * q + 1, 2 * r - d, d, n - 1)
  ELSE DivBits(2 * q, 2 * r, d, n - 1)

\* a / b. A zero divisor gives an infinity or (0 / 0) a NaN.
FDiv(a, b) ==
  IF a[1] = 0 \/ b[1] = 0 \/ b[2] = 0 THEN FNotFinite
  ELSE IF a[2] = 0 THEN FZero
  ELSE LET n == IF a[2] >= b[2] THEN 23 ELSE 24
           qr == DivBits(a[2] \div b[2], a[2] % b[2], b[2], n)
       IN  FRound(a[1] * b[1], qr[1], qr[2], b[2], a[3] - b[3] - n)

\* a * b: the 48-bit product of the mantissas as hi * 2^24 + lo.
FMul(a, b) ==
  IF a[1] = 0 \/ b[1] = 0 THEN FNotFinite
  ELSE IF a[2] = 0 \/ b[2] = 0 THEN FZero
  ELSE LET a1 == a[2] \div 4096
           a0 == a[2] % 4096
           b1 == b[2] \div 4096
           b0 == b[2] % 4096
           mid == a1 * b0 + a0 * b1
           low == a0 * b0 + (mid % 4096) * 4096
           lo == low % 2^24
           hi == a1 * b1 + (mid \div 4096) + (low \div 2^24)
       IN  IF hi >= 2^23
             THEN FRound(a[1] * b[1], hi, lo, 2^24, a[3] + b[3] + 24)
             ELSE FRound(a[1] * b[1], 2 * hi + (lo \div 2^23), lo % 2^23, 2^23,
                         a[3] + b[3] + 23)

\* x + y for |x| >= |y| > 0, with three more bits than the mantissa has; the
\* last of them is set when a lower bit of y is.
FAddOrdered(x, y) ==
  LET diff == x[3] - y[3]
      y8 == 8 * y[2]
      ys == IF diff >= 27 THEN 1
            ELSE (y8 \div 2^diff) + (IF y8 % 2^diff # 0 /\ (y8 \div 2^diff) % 2 = 0
                                       THEN 1 ELSE 0)
      sum == IF x[1] = y[1] THEN 8 * x[2] + ys ELSE 8 * x[2] - ys
      e == x[3] - 3
      len == BitLen(sum)
  IN  IF sum = 0 THEN FZero
      ELSE IF len <= 24 THEN FNormal(x[1], sum, e)
      ELSE LET k == len - 24
           IN  FRound(x[1], sum \div 2^k, sum % 2^k, 2^k, e + k)

\* a + b.
FAdd(a, b) ==
  IF a[1] = 0 \/ b[1] = 0 THEN FNotFinite
  ELSE IF a[2] = 0 THEN b
  ELSE IF b[2] = 0 THEN a
  ELSE IF a[3] > b[3] \/ (a[3] = b[3] /\ a[2] >= b[2]) THEN FAddOrdered(a, b)
  ELSE FAddOrdered(b, a)

\* What (int16_t) of a float outside the range of int16_t, of an infinity or
\* of a NaN evaluates to: the conversion is undefined.
UndefinedInt16 == {-32768, 0}

\* The float is finite and its integral part is a value of int16_t.
FFitsInt16(a) ==
  /\ a[1] # 0
  /\ a[2] = 0 \/ a[3] < -8 \/ (a[3] = -8 /\ a[1] = -1 /\ a[2] < 2^23 + 256)

\* (int16_t) a: the value truncated toward zero; u where it is undefined.
FToInt16(a, u) ==
  IF ~FFitsInt16(a) THEN u
  ELSE IF a[2] = 0 \/ a[3] <= -24 THEN 0
  ELSE a[1] * (a[2] \div 2^(-a[3]))

(***************************************************************************)
(* TS_Display::GetCalibration_UL_LR(pixelOffset, x_UL, y_UL, x_LR, y_LR):   *)
(* << *x_UL, *y_UL, *x_LR, *y_LR >>.                                        *)
(***************************************************************************)
GetCalibration_UL_LR_NoMargin(pixelOffset, pX, pY) ==
  << ToInt16(pixelOffset), ToInt16(pixelOffset),
     ToInt16(pX - pixelOffset), ToInt16(pY - pixelOffset) >>

GetCalibration_UL_LR(pixelOffset, pX, pY) ==
  << ToInt16(pixelOffset), ToInt16(pixelOffset),
     ToInt16(pX - pixelOffset - 1), ToInt16(pY - pixelOffset - 1) >>

(***************************************************************************)
(* TS_Display::findTS_calibration on one axis: the floats                   *)
(* << TS_UL + (0 - ul) * s, TS_UL + (pixels - ul) * s >> converted to the   *)
(* bounds << *TS_UL, *TS_LR >>, from the display coordinates ul, lr of two  *)
(* points, their touchscreen coordinates TSul, TSlr and the pixel extent.   *)
(***************************************************************************)
Scale(ul, lr, TSul, TSlr) == FDiv(FFromInt(TSlr - TSul), FFromInt(lr - ul))

Extrapolate(TSul, ul, to, sc) ==
  FAdd(FFromInt(TSul), FMul(FFromInt(to - ul), sc))

findTS_calibration_Axis_LastPixel(ul, lr, TSul, TSlr, pixels) ==
  LET sc == Scale(ul, lr, TSul, TSlr)
  IN  << Extrapolate(TSul, ul, 0, sc), Extrapolate(TSul, ul, pixels - 1, sc) >>

findTS_calibration_Axis(ul, lr, TSul, TSlr, pixels) ==
  LET sc == Scale(ul, lr, TSul, TSlr)
  IN  << Extrapolate(TSul, ul, 0, sc), Extrapolate(TSul, ul, pixels, sc) >>

\* What (int16_t) of each of the two floats can evaluate to where it is
\* undefined.
ConversionOutcomes(f) ==
  (IF FFitsInt16(f[1]) THEN {0} ELSE UndefinedInt16)
    \X (IF FFitsInt16(f[2]) THEN {0} ELSE UndefinedInt16)

(***************************************************************************)
(* TS_ILI9341_map: the same, on the fields of ili.                          *)
(***************************************************************************)
\* TS_ILI9341_map::mapTS_to_TFT: <<*x, *y>>.
mapTS_to_TFT(TSx, TSy, dzx, dzy) ==
  << ToInt16(map(TSx, ili.TS_UL_X, ili.TS_LR_X, 0, ili.pixelsX, dzx)),
     ToInt16(map(TSy, ili.TS_UL_Y, ili.TS_LR_Y, 0, ili.pixelsY, dzy)) >>

\* TS_ILI9341_map::mapTFT_to_TS: <<*TSx, *TSy>>.
mapTFT_to_TS(xv, yv, dzx, dzy) ==
  << ToInt16(map(xv, 0, ili.pixelsX, ili.TS_UL_X, ili.TS_LR_X, dzx)),
     ToInt16(map(yv, 0, ili.pixelsY, ili.TS_UL_Y, ili.TS_LR_Y, dzy)) >>

\* TS_ILI9341_map::begin: <<_TS_UL_X, _TS_UL_Y, _TS_LR_X, _TS_LR_Y>>.
IliDefaultCalibration(r) ==
  CASE r = 0 -> << TS_OFFSET - TS_LR_SHORT, TS_OFFSET - TS_LR_LONG,
                   TS_OFFSET - TS_UL_SHORT, TS_OFFSET - TS_UL_LONG >>
    [] r = 1 -> << TS_OFFSET - TS_LR_SHORT, TS_UL_SHORT,
                   TS_OFFSET - TS_UL_SHORT, TS_LR_SHORT >>
    [] r = 2 -> << TS_UL_SHORT, TS_UL_SHORT, TS_LR_SHORT, TS_LR_SHORT >>
    [] r = 3 -> << TS_UL_SHORT, TS_OFFSET - TS_LR_LONG,
                   TS_LR_SHORT, TS_OFFSET - TS_UL_LONG >>
    [] OTHER -> << ili.TS_UL_X, ili.TS_UL_Y, ili.TS_LR_X, ili.TS_LR_Y >>

(***************************************************************************)
(* TS_Display::begin: the default calibration of each rotation.             *)
(* <<_TS_UL_X, _TS_UL_Y, _TS_LR_X, _TS_LR_Y>>                               *)
(***************************************************************************)
\* The default calibration with rotation 1 seeded as rotation 0 is.
DefaultCalibration_LongInRotation1(r) ==
  CASE r \in {0, 1} -> << TS_OFFSET - TS_LR_SHORT, TS_OFFSET - TS_LR_LONG,
                          TS_OFFSET - TS_UL_SHORT, TS_OFFSET - TS_UL_LONG >>
    [] r = 2 -> << TS_UL_SHORT, TS_UL_SHORT, TS_LR_SHORT, TS_LR_SHORT >>
    [] r = 3 -> << TS_UL_SHORT, TS_OFFSET - TS_LR_LONG,
                   TS_LR_SHORT, TS_OFFSET - TS_UL_LONG >>
    [] OTHER -> << TS_UL_X, TS_UL_Y, TS_LR_X, TS_LR_Y >>

DefaultCalibration(r) ==
  CASE r = 0 -> << TS_OFFSET - TS_LR_SHORT, TS_OFFSET - TS_LR_LONG,
                   TS_OFFSET - TS_UL_SHORT, TS_OFFSET - TS_UL_LONG >>
    [] r = 1 -> << TS_OFFSET - TS_LR_SHORT, TS_UL_SHORT,
                   TS_OFFSET - TS_UL_SHORT, TS_LR_SHORT >>
    [] r = 2 -> << TS_UL_SHORT, TS_UL_SHORT, TS_LR_SHORT, TS_LR_SHORT >>
    [] r = 3 -> << TS_UL_SHORT, TS_OFFSET - TS_LR_LONG,
                   TS_LR_SHORT, TS_OFFSET - TS_UL_LONG >>
    [] OTHER -> << TS_UL_X, TS_UL_Y, TS_LR_X, TS_LR_Y >>

(***************************************************************************)
(* TS_Display::getTouchEvent, its steps.                                    *)
(***************************************************************************)
\* Classify with the touch test strict (p > min for p >= min).
Classify_StrictMin(p, last, minP, maxP) ==
  IF p > minP THEN << TRUE, TS_TOUCH_PRESENT >>
  ELSE IF p <= maxP THEN << FALSE, TS_NO_TOUCH >>
  ELSE << last, TS_UNCERTAIN >>

\* Classify with a pressure inside the band reported as the confirmed level.
Classify_BandKeepsLevel(p, last, minP, maxP) ==
  IF p >= minP THEN << TRUE, TS_TOUCH_PRESENT >>
  ELSE IF p <= maxP THEN << FALSE, TS_NO_TOUCH >>
  ELSE << last, IF last THEN TS_TOUCH_PRESENT ELSE TS_NO_TOUCH >>

\* Lines 121-128: <<currentTSeventIsTouch, ret>> for the pressure read.
Classify(p, last, minP, maxP) ==
  IF p >= minP THEN << TRUE, TS_TOUCH_PRESENT >>
  ELSE IF p <= maxP THEN << FALSE, TS_NO_TOUCH >>
  ELSE << last, TS_UNCERTAIN >>

\* Line 131: no change from the last detected event.
NoChange(last, cur) == last = cur

\* The timer taken as expired at every poll.
DebounceExpired_Always(t, ms, deb) == TRUE

\* The expiry test as t >= ms + deb, without the arithmetic modulo 2^32.
DebounceExpired_NoWrap(t, ms, deb) ==
  LET lo == ms[2] + deb[2]
      hi == ms[1] + deb[1] + (lo \div 65536)
  IN  t[1] > hi \/ (t[1] = hi /\ t[2] >= lo % 65536)

\* Line 137, negated: the debounce timer has expired.
DebounceExpired(t, ms, deb) == ~U32Lt(U32Sub(t, ms), deb)

\* Line 143 with the two events exchanged.
EdgeEventOf_Reversed(cur) == IF cur THEN TS_RELEASE_EVENT ELSE TS_TOUCH_EVENT

\* Line 143: the event returned for the new confirmed state.
EdgeEventOf(cur) == IF cur THEN TS_TOUCH_EVENT ELSE TS_RELEASE_EVENT

\* Debounce without line 142: the new confirmed state is not stored.
Debounce_NoFlip(last, ms, t, deb, cur, r0) ==
  IF NoChange(last, cur) THEN << r0, last, t >>
  ELSE IF ~DebounceExpired(t, ms, deb) THEN << r0, last, ms >>
  ELSE << EdgeEventOf(cur), last, t >>

\* Debounce without line 141: the timer is not restarted at an event.
Debounce_NoRestart(last, ms, t, deb, cur, r0) ==
  IF NoChange(last, cur) THEN << r0, last, t >>
  ELSE IF ~DebounceExpired(t, ms, deb) THEN << r0, last, ms >>
  ELSE << EdgeEventOf(cur), cur, ms >>

\* Debounce with line 137 applied to a touch only: a release is not debounced.
Debounce_ReleaseUndebounced(last, ms, t, deb, cur, r0) ==
  IF NoChange(last, cur) THEN << r0, last, t >>
  ELSE IF cur /\ ~DebounceExpired(t, ms, deb) THEN << r0, last, ms >>
  ELSE << EdgeEventOf(cur), cur, t >>

\* Debounce without line 132: a poll that agrees with the confirmed state
\* leaves the timer running.
Debounce_AgreeKeepsTimer(last, ms, t, deb, cur, r0) ==
  IF NoChange(last, cur) THEN << r0, last, ms >>
  ELSE IF ~DebounceExpired(t, ms, deb) THEN << r0, last, ms >>
  ELSE << EdgeEventOf(cur), cur, t >>

\* Debounce with the timer restarted by a poll that is withheld at line 138.
Debounce_WithheldRestarts(last, ms, t, deb, cur, r0) ==
  IF NoChange(last, cur) THEN << r0, last, t >>
  ELSE IF ~DebounceExpired(t, ms, deb) THEN << r0, last, t >>
  ELSE << EdgeEventOf(cur), cur, t >>

\* Lines 130-143: <<value returned, _lastEventWasTouch, _msTime>> after the
\* poll, cur and r0 being currentTSeventIsTouch and ret of lines 121-128.
Debounce(last, ms, t, deb, cur, r0) ==
  IF NoChange(last, cur) THEN << r0, last, t >>
  ELSE IF ~DebounceExpired(t, ms, deb) THEN << r0, last, ms >>
  ELSE << EdgeEventOf(cur), cur, t >>

(***************************************************************************)
(* Initial state: the constructors TS_Display() and TS_ILI9341_map().       *)
(***************************************************************************)
Constructed ==
  /\ t0 = now
  /\ began = FALSE
  /\ TS_UL_X = 0 /\ TS_UL_Y = 0 /\ TS_LR_X = 0 /\ TS_LR_Y = 0
  /\ debounceMS_TR = U32(DEF_DEBOUNCE_MS_TR)
  /\ minTouchPres = DEF_MIN_TOUCH_PRES
  /\ maxReleasePres = DEF_MAX_RELEASE_PRES
  /\ lastEventWasTouch = FALSE
  /\ msTime = now
  /\ pixelsX = 0 /\ pixelsY = 0
  /\ ili = [began |-> FALSE, TS_UL_X |-> 0, TS_UL_Y |-> 0, TS_LR_X |-> 0,
            TS_LR_Y |-> 0, pixelsX |-> 0, pixelsY |-> 0]
  /\ op = "construct"
  /\ ret = NO_RETURN
  /\ out = NoOutput
  /\ prev = NoCall
  /\ fault = FALSE
  /\ edgeBalance = 0
  /\ edgePoll = NoEdge
  /\ prevEdge = NoEdge
  /\ diffStart = NoTime
  /\ beganAt = NoTime
  /\ timerStart = now
  /\ sinceEdge = NoGap
  /\ edgeGap = NoGap
  /\ heldAtBegin = FALSE

Init ==
  /\ now \in StartTimes
  /\ rotation \in TouchRotations
  /\ panel \in Panels
  /\ Constructed

(***************************************************************************)
(* The clock. Every call is made at some millis() t, which it reads         *)
(* throughout; t is d ms after the call before it (modulo 2^32). A          *)
(* behaviour of Spec covers MaxTime ms.                                     *)
(***************************************************************************)
Later(d) == U32Add(now, d)

InTime(d) == Age + d <= MaxTime

\* The longest debounce time in force in any behaviour.
MaxDebounce ==
  CHOOSE m \in { prm[1] : prm \in TouchReleaseParams } \cup {DEF_DEBOUNCE_MS_TR} :
    \A prm \in TouchReleaseParams : prm[1] <= m /\ DEF_DEBOUNCE_MS_TR <= m

\* sinceEdge at a call made at millis() t.
SinceEdgeAt(t) ==
  IF sinceEdge = NoGap THEN NoGap
  ELSE LET g == sinceEdge + Ms(U32Sub(t, now))
       IN  IF g > MaxDebounce THEN MaxDebounce ELSE g

(***************************************************************************)
(* TS_Display::begin(ts, disp).                                             *)
(***************************************************************************)
\* BeginTouchState with the debounce parameters left as they are.
BeginTouchState_KeepsParams(t) ==
  << debounceMS_TR, minTouchPres, maxReleasePres, FALSE, t >>

\* Lines 95-100: <<_debounceMS_TR, _minTouchPres, _maxReleasePres,
\* _lastEventWasTouch, _msTime>> as begin() called at millis() t sets them.
BeginTouchState(t) ==
  << U32(DEF_DEBOUNCE_MS_TR), DEF_MIN_TOUCH_PRES, DEF_MAX_RELEASE_PRES,
     FALSE, t >>

Begin(t) ==
  /\ now' = t
  /\ began' = TRUE
  /\ LET c == DefaultCalibration(rotation)
     IN  /\ TS_UL_X' = c[1]
         /\ TS_UL_Y' = c[2]
         /\ TS_LR_X' = c[3]
         /\ TS_LR_Y' = c[4]
  /\ LET b == BeginTouchState(t)
     IN  /\ debounceMS_TR' = b[1]
         /\ minTouchPres' = b[2]
         /\ maxReleasePres' = b[3]
         /\ lastEventWasTouch' = b[4]
         /\ msTime' = b[5]
  /\ pixelsX' = width
  /\ pixelsY' = height
  /\ op' = "begin"
  /\ ret' = NO_RETURN
  /\ out' = [prior |-> << TS_UL_X, TS_UL_Y, TS_LR_X, TS_LR_Y >>]
  /\ prev' = NoCall
  /\ edgeBalance' = 0
  /\ edgePoll' = NoEdge
  /\ prevEdge' = NoEdge
  /\ diffStart' = NoTime
  /\ beganAt' = t
  /\ timerStart' = t
  /\ sinceEdge' = NoGap
  /\ edgeGap' = NoGap
  /\ heldAtBegin' = lastEventWasTouch
  /\ UNCHANGED << envVars, ili, fault >>

(***************************************************************************)
(* TS_Display::setTouchReleaseParams(debounceMS_TR, min, max).              *)
(***************************************************************************)
SetTouchReleaseParams(t, prm) ==
  /\ now' = t
  /\ debounceMS_TR' = U32(prm[1])
  /\ minTouchPres' = prm[2]
  /\ maxReleasePres' = prm[3]
  /\ op' = "setTouchReleaseParams"
  /\ ret' = NO_RETURN
  /\ out' = NoOutput
  /\ prev' = NoCall
  /\ prevEdge' = NoEdge
  /\ UNCHANGED << envVars, began, calVars, timerVars, pixelVars, ili, fault,
                  edgeBalance, edgePoll, diffStart, beganAt, timerStart >>
  /\ sinceEdge' = SinceEdgeAt(t)
  /\ edgeGap' = NoGap
  /\ UNCHANGED heldAtBegin

(***************************************************************************)
(* TS_Display::setTS_calibration(TS_LR_X, TS_LR_Y, TS_UL_X, TS_UL_Y). prev  *)
(* keeps the call before it when that call was the findTS_calibration that  *)
(* returned the bounds being set.                                           *)
(***************************************************************************)
ThisCall == [op |-> op, out |-> out]

InstallsFound(c) ==
  /\ op = "findTS_calibration"
  /\ c = << out.TS_LR_X, out.TS_LR_Y, out.TS_UL_X, out.TS_UL_Y >>

\* SetTS_calibration taking its arguments as UL_X, UL_Y, LR_X, LR_Y.
SetTS_calibration_ULFirst(t, c) ==
  /\ now' = t
  /\ TS_UL_X' = c[1]
  /\ TS_UL_Y' = c[2]
  /\ TS_LR_X' = c[3]
  /\ TS_LR_Y' = c[4]
  /\ op' = "setTS_calibration"
  /\ ret' = NO_RETURN
  /\ out' = [TS_LR_X |-> c[1], TS_LR_Y |-> c[2], TS_UL_X |-> c[3], TS_UL_Y |-> c[4]]
  /\ prev' = (IF InstallsFound(c) THEN ThisCall ELSE NoCall)
  /\ prevEdge' = NoEdge
  /\ UNCHANGED << envVars, began, paramVars, timerVars, pixelVars, ili, fault,
                  edgeBalance, edgePoll, diffStart, beganAt, timerStart >>
  /\ sinceEdge' = SinceEdgeAt(t)
  /\ edgeGap' = NoGap
  /\ UNCHANGED heldAtBegin

SetTS_calibration(t, c) ==
  /\ now' = t
  /\ TS_LR_X' = c[1]
  /\ TS_LR_Y' = c[2]
  /\ TS_UL_X' = c[3]
  /\ TS_UL_Y' = c[4]
  /\ op' = "setTS_calibration"
  /\ ret' = NO_RETURN
  /\ out' = [TS_LR_X |-> c[1], TS_LR_Y |-> c[2], TS_UL_X |-> c[3], TS_UL_Y |-> c[4]]
  /\ prev' = (IF InstallsFound(c) THEN ThisCall ELSE NoCall)
  /\ prevEdge' = NoEdge
  /\ UNCHANGED << envVars, began, paramVars, timerVars, pixelVars, ili, fault,
                  edgeBalance, edgePoll, diffStart, beganAt, timerStart >>
  /\ sinceEdge' = SinceEdgeAt(t)
  /\ edgeGap' = NoGap
  /\ UNCHANGED heldAtBegin

(***************************************************************************)
(* TS_Display::getTouchEvent(x, y, pres, px, py): one poll. getPoint()      *)
(* returns the sample <<p[1], p[2], z>>; raw tells whether px and py are    *)
(* given: out.px and out.py hold what is written to *px and *py, nothing   *)
(* for a null pointer. out.sample and out.raw record the sample read and    *)
(* whether px and py were given.                                            *)
(***************************************************************************)
\* PollOutputs with *px and *py exchanged.
PollOutputs_RawSwapped(p, z, raw, xy) ==
  [x |-> xy[1], y |-> xy[2], pres |-> z,
   px |-> IF raw THEN << p[2] >> ELSE << >>,
   py |-> IF raw THEN << p[1] >> ELSE << >>,
   sample |-> << p[1], p[2], z >>, raw |-> raw]

\* Lines 111-119: what the poll writes to x, y, pres, *px and *py.
PollOutputs(p, z, raw, xy) ==
  [x |-> xy[1], y |-> xy[2], pres |-> z,
   px |-> IF raw THEN << p[1] >> ELSE << >>,
   py |-> IF raw THEN << p[2] >> ELSE << >>,
   sample |-> << p[1], p[2], z >>, raw |-> raw]

GetTouchEvent(t, p, z, raw, dzx, dzy) ==
  /\ began
  /\ now' = t
  /\ LET xy == mapTStoDisplay(p[1], p[2], dzx, dzy)
         c == Classify(z, lastEventWasTouch, minTouchPres, maxReleasePres)
         r == Debounce(lastEventWasTouch, msTime, t, debounceMS_TR, c[1], c[2])
         differs == c[1] # lastEventWasTouch
     IN  /\ out' = PollOutputs(p, z, raw, xy)
         /\ ret' = r[1]
         /\ lastEventWasTouch' = r[2]
         /\ msTime' = r[3]
         /\ edgeBalance' = CASE r[1] = TS_TOUCH_EVENT -> edgeBalance + 1
                             [] r[1] = TS_RELEASE_EVENT -> edgeBalance - 1
                             [] OTHER -> edgeBalance
         /\ edgePoll' = IF r[1] \in EdgeEvents THEN << r[1], t >> ELSE NoEdge
         /\ diffStart' = IF ~differs THEN NoTime
                         ELSE IF diffStart = NoTime \/ edgePoll # NoEdge THEN t
                         ELSE diffStart
         /\ beganAt' = IF edgePoll # NoEdge THEN NoTime ELSE beganAt
         /\ heldAtBegin' = IF edgePoll # NoEdge THEN FALSE ELSE heldAtBegin
         /\ timerStart' = IF ~differs \/ r[1] \in EdgeEvents THEN t
                          ELSE timerStart
         /\ sinceEdge' = IF r[1] \in EdgeEvents THEN 0 ELSE SinceEdgeAt(t)
         /\ edgeGap' = IF r[1] \in EdgeEvents THEN SinceEdgeAt(t) ELSE NoGap
  /\ prevEdge' = IF edgePoll = NoEdge THEN NoEdge
                 ELSE << edgePoll[1], U32Sub(t, edgePoll[2]) >>
  /\ fault' = (fault \/ TStoDisplayDividesByZero)
  /\ op' = "getTouchEvent"
  /\ prev' = NoCall
  /\ UNCHANGED << envVars, began, calVars, paramVars, pixelVars, ili >>

(***************************************************************************)
(* The event machine.                                                       *)
(***************************************************************************)
Poll(t) ==
  \E p \in PollPoints, z \in PollPressures, raw \in BOOLEAN,
     dzx \in DivOutcomes(TS_UL_X, TS_LR_X),
     dzy \in DivOutcomes(TS_UL_Y, TS_LR_Y) :
       GetTouchEvent(t, p, z, raw, dzx, dzy)

Next ==
  \E d \in Delays :
    /\ InTime(d)
    /\ \/ Begin(Later(d))
       \/ \E prm \in TouchReleaseParams : SetTouchReleaseParams(Later(d), prm)
       \/ \E c \in TouchCalibrations : SetTS_calibration(Later(d), c)
       \/ Poll(Later(d))

Spec == Init /\ [][Next]_vars

(***************************************************************************)
(* The display's setRotation(r) (Adafruit_GFX), made by the application.    *)
(***************************************************************************)
SetRotation(r) ==
  /\ rotation' = r
  /\ op' = "setRotation"
  /\ ret' = NO_RETURN
  /\ out' = NoOutput
  /\ prev' = NoCall
  /\ UNCHANGED << now, t0, panel, began, calVars, paramVars, timerVars,
                  pixelVars, ili, fault, histVars >>

(***************************************************************************)
(* TS_Display::mapTStoDisplay(TSx, TSy, x, y) and                           *)
(* TS_Display::mapDisplayToTS(x, y, TSx, TSy). prev keeps the call before   *)
(* a reverse mapping when that call was the forward mapping, and the        *)
(* findTS_calibration call before a forward mapping made right after its    *)
(* bounds were set.                                                         *)
(***************************************************************************)
MapTStoDisplay(pt, dzx, dzy) ==
  /\ LET xy == mapTStoDisplay(pt[1], pt[2], dzx, dzy)
     IN  out' = [TSx |-> pt[1], TSy |-> pt[2], x |-> xy[1], y |-> xy[2]]
  /\ fault' = (fault \/ TStoDisplayDividesByZero)
  /\ op' = "mapTStoDisplay"
  /\ ret' = NO_RETURN
  /\ prev' = (IF op = "setTS_calibration" THEN prev ELSE NoCall)
  /\ UNCHANGED << now, envVars, began, calVars, paramVars, timerVars,
                  pixelVars, ili, histVars >>

MapDisplayToTS(pt, dzx, dzy) ==
  /\ LET ts == mapDisplayToTS(pt[1], pt[2], dzx, dzy)
     IN  out' = [x |-> pt[1], y |-> pt[2], TSx |-> ts[1], TSy |-> ts[2]]
  /\ fault' = (fault \/ DisplayToTSDividesByZero)
  /\ op' = "mapDisplayToTS"
  /\ ret' = NO_RETURN
  /\ prev' = (IF op = "mapTStoDisplay" THEN ThisCall ELSE NoCall)
  /\ UNCHANGED << now, envVars, began, calVars, paramVars, timerVars,
                  pixelVars, ili, histVars >>

(***************************************************************************)
(* TS_ILI9341_map: begin, setTS_calibration, mapTS_to_TFT, mapTFT_to_TS.    *)
(***************************************************************************)
IliBegin ==
  /\ LET c == IliDefaultCalibration(rotation)
     IN  ili' = [began |-> TRUE, TS_UL_X |-> c[1], TS_UL_Y |-> c[2],
                 TS_LR_X |-> c[3], TS_LR_Y |-> c[4],
                 pixelsX |-> width, pixelsY |-> height]
  /\ op' = "TS_ILI9341_map::begin"
  /\ ret' = NO_RETURN
  /\ out' = [prior |-> << ili.TS_UL_X, ili.TS_UL_Y, ili.TS_LR_X, ili.TS_LR_Y >>]
  /\ prev' = NoCall
  /\ UNCHANGED << now, envVars, began, calVars, paramVars, timerVars,
                  pixelVars, fault, histVars >>

IliSetTS_calibration(c) ==
  /\ ili' = [ili EXCEPT !.TS_LR_X = c[1], !.TS_LR_Y = c[2],
                        !.TS_UL_X = c[3], !.TS_UL_Y = c[4]]
  /\ op' = "TS_ILI9341_map::setTS_calibration"
  /\ ret' = NO_RETURN
  /\ out' = [TS_LR_X |-> c[1], TS_LR_Y |-> c[2], TS_UL_X |-> c[3], TS_UL_Y |-> c[4]]
  /\ prev' = NoCall
  /\ UNCHANGED << now, envVars, began, calVars, paramVars, timerVars,
                  pixelVars, fault, histVars >>

IliMapTS_to_TFT(pt, dzx, dzy) ==
  /\ LET xy == mapTS_to_TFT(pt[1], pt[2], dzx, dzy)
     IN  out' = [TSx |-> pt[1], TSy |-> pt[2], x |-> xy[1], y |-> xy[2]]
  /\ fault' = (fault \/ ili.TS_LR_X = ili.TS_UL_X \/ ili.TS_LR_Y = ili.TS_UL_Y)
  /\ op' = "TS_ILI9341_map::mapTS_to_TFT"
  /\ ret' = NO_RETURN
  /\ prev' = NoCall
  /\ UNCHANGED << now, envVars, began, calVars, paramVars, timerVars,
                  pixelVars, ili, histVars >>

IliMapTFT_to_TS(pt, dzx, dzy) ==
  /\ LET ts == mapTFT_to_TS(pt[1], pt[2], dzx, dzy)
     IN  out' = [x |-> pt[1], y |-> pt[2], TSx |-> ts[1], TSy |-> ts[2]]
  /\ fault' = (fault \/ ili.pixelsX = 0 \/ ili.pixelsY = 0)
  /\ op' = "TS_ILI9341_map::mapTFT_to_TS"
  /\ ret' = NO_RETURN
  /\ prev' = (IF op = "TS_ILI9341_map::mapTS_to_TFT" THEN ThisCall ELSE NoCall)
  /\ UNCHANGED << now, envVars, began, calVars, paramVars, timerVars,
                  pixelVars, ili, histVars >>

(***************************************************************************)
(* The coordinate mapping of both classes. The clock stands still. The      *)
(* points mapped are those of MapPoints and DisplayPoints, the corners the  *)
(* calibration bounds and the pixel extents name, and, for the reverse      *)
(* mapping, the point the forward mapping has just returned.                *)
(***************************************************************************)
InitMap ==
  /\ now = U32(0)
  /\ rotation \in Rotations
  /\ panel \in MapPanels
  /\ Constructed

TSPoints ==
  MapPoints \cup { << TS_UL_X, TS_UL_Y >>, << TS_LR_X, TS_LR_Y >> }

PixelPoints ==
  DisplayPoints
    \cup { << pixelsX - 1, pixelsY - 1 >>, << pixelsX, pixelsY >> }
    \cup (IF op = "mapTStoDisplay" THEN { << out.x, out.y >> } ELSE {})

IliTSPoints ==
  MapPoints \cup { << ili.TS_UL_X, ili.TS_UL_Y >>, << ili.TS_LR_X, ili.TS_LR_Y >> }

IliPixelPoints ==
  DisplayPoints
    \cup { << ili.pixelsX - 1, ili.pixelsY - 1 >>, << ili.pixelsX, ili.pixelsY >> }
    \cup (IF op = "TS_ILI9341_map::mapTS_to_TFT" THEN { << out.x, out.y >> } ELSE {})

NextMap ==
  \/ \E r \in Rotations : SetRotation(r)
  \/ Begin(now)
  \/ \E c \in MapCalibrations : SetTS_calibration(now, c)
  \/ \E pt \in TSPoints, dzx \in DivOutcomes(TS_UL_X, TS_LR_X),
        dzy \in DivOutcomes(TS_UL_Y, TS_LR_Y) : MapTStoDisplay(pt, dzx, dzy)
  \/ \E pt \in PixelPoints, dzx \in DivOutcomes(0, pixelsX),
        dzy \in DivOutcomes(0, pixelsY) : MapDisplayToTS(pt, dzx, dzy)
  \/ IliBegin
  \/ \E c \in IliCalibrations : IliSetTS_calibration(c)
  \/ \E pt \in IliTSPoints, dzx \in DivOutcomes(ili.TS_UL_X, ili.TS_LR_X),
        dzy \in DivOutcomes(ili.TS_UL_Y, ili.TS_LR_Y) : IliMapTS_to_TFT(pt, dzx, dzy)
  \/ \E pt \in IliPixelPoints, dzx \in DivOutcomes(0, ili.pixelsX),
        dzy \in DivOutcomes(0, ili.pixelsY) : IliMapTFT_to_TS(pt, dzx, dzy)

SpecMap == InitMap /\ [][NextMap]_vars

(***************************************************************************)
(* TS_Display::getTS_calibration(TS_LR_X, TS_LR_Y, TS_UL_X, TS_UL_Y). prev  *)
(* keeps the call before it when that call was setTS_calibration.           *)
(***************************************************************************)
GetTS_calibration ==
  /\ out' = [TS_LR_X |-> TS_LR_X, TS_LR_Y |-> TS_LR_Y,
             TS_UL_X |-> TS_UL_X, TS_UL_Y |-> TS_UL_Y]
  /\ op' = "getTS_calibration"
  /\ ret' = NO_RETURN
  /\ prev' = (IF op = "setTS_calibration" THEN ThisCall ELSE NoCall)
  /\ UNCHANGED << now, envVars, began, calVars, paramVars, timerVars,
                  pixelVars, ili, fault, histVars >>

IliGetTS_calibration ==
  /\ out' = [TS_LR_X |-> ili.TS_LR_X, TS_LR_Y |-> ili.TS_LR_Y,
             TS_UL_X |-> ili.TS_UL_X, TS_UL_Y |-> ili.TS_UL_Y]
  /\ op' = "TS_ILI9341_map::getTS_calibration"
  /\ ret' = NO_RETURN
  /\ prev' = (IF op = "TS_ILI9341_map::setTS_calibration" THEN ThisCall ELSE NoCall)
  /\ UNCHANGED << now, envVars, began, calVars, paramVars, timerVars,
                  pixelVars, ili, fault, histVars >>

(***************************************************************************)
(* GetCalibration_UL_LR(pixelOffset, x_UL, y_UL, x_LR, y_LR) of both        *)
(* classes.                                                                 *)
(***************************************************************************)
ReferencePoints(pixelOffset, pts) ==
  [pixelOffset |-> pixelOffset, x_UL |-> pts[1], y_UL |-> pts[2],
   x_LR |-> pts[3], y_LR |-> pts[4]]

CallGetCalibration_UL_LR(pixelOffset) ==
  /\ out' = ReferencePoints(pixelOffset,
                            GetCalibration_UL_LR(pixelOffset, pixelsX, pixelsY))
  /\ op' = "GetCalibration_UL_LR"
  /\ ret' = NO_RETURN
  /\ prev' = NoCall
  /\ UNCHANGED << now, envVars, began, calVars, paramVars, timerVars,
                  pixelVars, ili, fault, histVars >>

IliGetCalibration_UL_LR(pixelOffset) ==
  /\ out' = ReferencePoints(pixelOffset,
               GetCalibration_UL_LR(pixelOffset, ili.pixelsX, ili.pixelsY))
  /\ op' = "TS_ILI9341_map::GetCalibration_UL_LR"
  /\ ret' = NO_RETURN
  /\ prev' = NoCall
  /\ UNCHANGED << now, envVars, began, calVars, paramVars, timerVars,
                  pixelVars, ili, fault, histVars >>

(***************************************************************************)
(* findTS_calibration(x_UL, y_UL, x_LR, y_LR, TSx_UL, TSy_UL, TSx_LR,       *)
(* TSy_LR, TS_LR_X, TS_LR_Y, TS_UL_X, TS_UL_Y) of both classes, called with *)
(* the arguments a. out.divZero: a scale was computed by a division by zero; out.undefined:  *)
(* a conversion to int16_t was undefined.                                   *)
(***************************************************************************)
Solved(a, fx, fy, ux, uy) ==
  [x_UL |-> a[1], y_UL |-> a[2], x_LR |-> a[3], y_LR |-> a[4],
   TSx_UL |-> a[5], TSy_UL |-> a[6], TSx_LR |-> a[7], TSy_LR |-> a[8],
   TS_UL_X |-> FToInt16(fx[1], ux[1]), TS_LR_X |-> FToInt16(fx[2], ux[2]),
   TS_UL_Y |-> FToInt16(fy[1], uy[1]), TS_LR_Y |-> FToInt16(fy[2], uy[2]),
   divZero |-> (a[3] = a[1] \/ a[4] = a[2]),
   undefined |-> ~(FFitsInt16(fx[1]) /\ FFitsInt16(fx[2])
                     /\ FFitsInt16(fy[1]) /\ FFitsInt16(fy[2]))]

\* FindTS_calibration with the bounds found installed as the current ones.
FindTS_calibration_Installs(a) ==
  /\ LET fx == findTS_calibration_Axis(a[1], a[3], a[5], a[7], pixelsX)
         fy == findTS_calibration_Axis(a[2], a[4], a[6], a[8], pixelsY)
     IN  \E ux \in ConversionOutcomes(fx), uy \in ConversionOutcomes(fy) :
           out' = Solved(a, fx, fy, ux, uy)
  /\ TS_UL_X' = out'.TS_UL_X /\ TS_UL_Y' = out'.TS_UL_Y
  /\ TS_LR_X' = out'.TS_LR_X /\ TS_LR_Y' = out'.TS_LR_Y
  /\ op' = "findTS_calibration"
  /\ ret' = NO_RETURN
  /\ prev' = NoCall
  /\ UNCHANGED << now, envVars, began, paramVars, timerVars,
                  pixelVars, ili, fault, histVars >>

FindTS_calibration(a) ==
  /\ LET fx == findTS_calibration_Axis(a[1], a[3], a[5], a[7], pixelsX)
         fy == findTS_calibration_Axis(a[2], a[4], a[6], a[8], pixelsY)
     IN  \E ux \in ConversionOutcomes(fx), uy \in ConversionOutcomes(fy) :
           out' = Solved(a, fx, fy, ux, uy)
  /\ op' = "findTS_calibration"
  /\ ret' = NO_RETURN
  /\ prev' = NoCall
  /\ UNCHANGED << now, envVars, began, calVars, paramVars, timerVars,
                  pixelVars, ili, fault, histVars >>

IliFindTS_calibration(a) ==
  /\ LET fx == findTS_calibration_Axis(a[1], a[3], a[5], a[7], ili.pixelsX)
         fy == findTS_calibration_Axis(a[2], a[4], a[6], a[8], ili.pixelsY)
     IN  \E ux \in ConversionOutcomes(fx), uy \in ConversionOutcomes(fy) :
           out' = Solved(a, fx, fy, ux, uy)
  /\ op' = "TS_ILI9341_map::findTS_calibration"
  /\ ret' = NO_RETURN
  /\ prev' = NoCall
  /\ UNCHANGED << now, envVars, began, calVars, paramVars, timerVars,
                  pixelVars, ili, fault, histVars >>

(***************************************************************************)
(* Calibration with both classes. findTS_calibration is called with the     *)
(* arguments of FindArgs and, once begin() has set the pixel extents, with  *)
(* the reference points of GetCalibration_UL_LR and the touchscreen         *)
(* coordinates mapDisplayToTS gives for them under the current bounds. The  *)
(* display keeps its rotation.                                              *)
(***************************************************************************)
\* The arguments made of the reference points of pixelOffset.
ReferenceArgs(pixelOffset) ==
  LET pts == GetCalibration_UL_LR(pixelOffset, pixelsX, pixelsY)
      tsUL == mapDisplayToTS(pts[1], pts[2], 0, 0)
      tsLR == mapDisplayToTS(pts[3], pts[4], 0, 0)
  IN  << pts[1], pts[2], pts[3], pts[4], tsUL[1], tsUL[2], tsLR[1], tsLR[2] >>

IliReferenceArgs(pixelOffset) ==
  LET pts == GetCalibration_UL_LR(pixelOffset, ili.pixelsX, ili.pixelsY)
      tsUL == mapTFT_to_TS(pts[1], pts[2], 0, 0)
      tsLR == mapTFT_to_TS(pts[3], pts[4], 0, 0)
  IN  << pts[1], pts[2], pts[3], pts[4], tsUL[1], tsUL[2], tsLR[1], tsLR[2] >>

FindInputs ==
  FindArgs \cup (IF pixelsX # 0 /\ pixelsY # 0
                   THEN { ReferenceArgs(o) : o \in Offsets } ELSE {})

IliFindInputs ==
  FindArgs \cup (IF ili.pixelsX # 0 /\ ili.pixelsY # 0
                   THEN { IliReferenceArgs(o) : o \in IliOffsets } ELSE {})

NextCal ==
  \/ Begin(now)
  \/ \E c \in CalCalibrations : SetTS_calibration(now, c)
  \/ GetTS_calibration
  \/ \E o \in Offsets : CallGetCalibration_UL_LR(o)
  \/ \E a \in FindInputs : FindTS_calibration(a)
  \/ IliBegin
  \/ \E c \in IliCalibrations : IliSetTS_calibration(c)
  \/ IliGetTS_calibration
  \/ \E o \in IliOffsets : IliGetCalibration_UL_LR(o)
  \/ \E a \in IliFindInputs : IliFindTS_calibration(a)

InitCal ==
  /\ now = U32(0)
  /\ rotation \in Rotations
  /\ panel \in Panels
  /\ Constructed

SpecCal == InitCal /\ [][NextCal]_vars

(***************************************************************************)
(* A calibration carried through: findTS_calibration on two points, then    *)
(* setTS_calibration with the bounds it returned, then mapTStoDisplay of    *)
(* one of the two touchscreen points measured.                              *)
(***************************************************************************)
\* Arguments of findTS_calibration: those of FindArgs, two points one pixel
\* apart in x measured at the two ends of the sensor range, and two points
\* measured only 10 sensor units apart in x.
LoopArgs ==
  FindArgs \cup { <<100, 10, 101, 309, 0, 3800, 4095, 500>>,
                  <<10, 10, 229, 309, 100, 3800, 110, 500>> }

\* The two touchscreen points given to the findTS_calibration call in prev.
MeasuredPoints ==
  IF op = "setTS_calibration" /\ prev # NoCall
    THEN { << prev.out.TSx_UL, prev.out.TSy_UL >>,
           << prev.out.TSx_LR, prev.out.TSy_LR >> }
    ELSE {}

NextLoop ==
  \/ Begin(now)
  \/ \E a \in LoopArgs : FindTS_calibration(a)
  \/ /\ op = "findTS_calibration"
     /\ SetTS_calibration(now, << out.TS_LR_X, out.TS_LR_Y,
                                  out.TS_UL_X, out.TS_UL_Y >>)
  \/ \E pt \in MeasuredPoints, dzx \in DivOutcomes(TS_UL_X, TS_LR_X),
        dzy \in DivOutcomes(TS_UL_Y, TS_LR_Y) : MapTStoDisplay(pt, dzx, dzy)

SpecLoop == InitCal /\ [][NextLoop]_vars

(***************************************************************************)
(* The two classes side by side: one TS_Display and one TS_ILI9341_map on   *)
(* the same display, each step the same call made on both with the same     *)
(* arguments. out.display and out.ili are what the two calls returned; an   *)
(* undefined result is chosen for each object on its own.                   *)
(***************************************************************************)
Both(name) == "both::" \o name

PairResults(d, i) == [display |-> d, ili |-> i]

PairBegin ==
  /\ began' = TRUE
  /\ LET c == DefaultCalibration(rotation)
         ic == IliDefaultCalibration(rotation)
     IN  /\ TS_UL_X' = c[1] /\ TS_UL_Y' = c[2]
         /\ TS_LR_X' = c[3] /\ TS_LR_Y' = c[4]
         /\ ili' = [began |-> TRUE, TS_UL_X |-> ic[1], TS_UL_Y |-> ic[2],
                    TS_LR_X |-> ic[3], TS_LR_Y |-> ic[4],
                    pixelsX |-> width, pixelsY |-> height]
  /\ debounceMS_TR' = U32(DEF_DEBOUNCE_MS_TR)
  /\ minTouchPres' = DEF_MIN_TOUCH_PRES
  /\ maxReleasePres' = DEF_MAX_RELEASE_PRES
  /\ lastEventWasTouch' = FALSE
  /\ msTime' = now
  /\ pixelsX' = width
  /\ pixelsY' = height
  /\ op' = Both("begin")
  /\ out' = PairResults(<< >>, << >>)
  /\ edgeBalance' = 0
  /\ edgePoll' = NoEdge
  /\ prevEdge' = NoEdge
  /\ diffStart' = NoTime
  /\ beganAt' = now
  /\ timerStart' = now
  /\ sinceEdge' = NoGap
  /\ edgeGap' = NoGap
  /\ heldAtBegin' = lastEventWasTouch
  /\ UNCHANGED << now, envVars, ret, prev, fault >>

PairSetTS_calibration(c) ==
  /\ TS_LR_X' = c[1] /\ TS_LR_Y' = c[2]
  /\ TS_UL_X' = c[3] /\ TS_UL_Y' = c[4]
  /\ ili' = [ili EXCEPT !.TS_LR_X = c[1], !.TS_LR_Y = c[2],
                        !.TS_UL_X = c[3], !.TS_UL_Y = c[4]]
  /\ op' = Both("setTS_calibration")
  /\ out' = PairResults(<< >>, << >>)
  /\ UNCHANGED << now, envVars, began, paramVars, timerVars, pixelVars, ret,
                  prev, fault, histVars >>

PairGetTS_calibration ==
  /\ op' = Both("getTS_calibration")
  /\ out' = PairResults(<< TS_LR_X, TS_LR_Y, TS_UL_X, TS_UL_Y >>,
                        << ili.TS_LR_X, ili.TS_LR_Y, ili.TS_UL_X, ili.TS_UL_Y >>)
  /\ UNCHANGED << now, envVars, began, calVars, paramVars, timerVars,
                  pixelVars, ili, ret, prev, fault, histVars >>

PairMapToDisplay(pt) ==
  /\ \E dzx \in DivOutcomes(TS_UL_X, TS_LR_X),
        dzy \in DivOutcomes(TS_UL_Y, TS_LR_Y),
        izx \in DivOutcomes(ili.TS_UL_X, ili.TS_LR_X),
        izy \in DivOutcomes(ili.TS_UL_Y, ili.TS_LR_Y) :
          out' = PairResults(mapTStoDisplay(pt[1], pt[2], dzx, dzy),
                             mapTS_to_TFT(pt[1], pt[2], izx, izy))
  /\ fault' = (fault \/ TStoDisplayDividesByZero)
  /\ op' = Both("mapTStoDisplay")
  /\ UNCHANGED << now, envVars, began, calVars, paramVars, timerVars,
                  pixelVars, ili, ret, prev, histVars >>

PairMapToTS(pt) ==
  /\ \E dzx \in DivOutcomes(0, pixelsX), dzy \in DivOutcomes(0, pixelsY),
        izx \in DivOutcomes(0, ili.pixelsX),
        izy \in DivOutcomes(0, ili.pixelsY) :
          out' = PairResults(mapDisplayToTS(pt[1], pt[2], dzx, dzy),
                             mapTFT_to_TS(pt[1], pt[2], izx, izy))
  /\ fault' = (fault \/ DisplayToTSDividesByZero)
  /\ op' = Both("mapDisplayToTS")
  /\ UNCHANGED << now, envVars, began, calVars, paramVars, timerVars,
                  pixelVars, ili, ret, prev, histVars >>

PairGetCalibration_UL_LR(pixelOffset) ==
  /\ op' = Both("GetCalibration_UL_LR")
  /\ out' = PairResults(
              GetCalibration_UL_LR(pixelOffset, pixelsX, pixelsY),
              GetCalibration_UL_LR(pixelOffset, ili.pixelsX, ili.pixelsY))
  /\ UNCHANGED << now, envVars, began, calVars, paramVars, timerVars,
                  pixelVars, ili, ret, prev, fault, histVars >>

\* <<*TS_LR_X, *TS_LR_Y, *TS_UL_X, *TS_UL_Y>> of one findTS_calibration.
FoundBounds(fx, fy, ux, uy) ==
  << FToInt16(fx[2], ux[2]), FToInt16(fy[2], uy[2]),
     FToInt16(fx[1], ux[1]), FToInt16(fy[1], uy[1]) >>

PairFindTS_calibration(a) ==
  /\ LET fx == findTS_calibration_Axis(a[1], a[3], a[5], a[7], pixelsX)
         fy == findTS_calibration_Axis(a[2], a[4], a[6], a[8], pixelsY)
         ix == findTS_calibration_Axis(a[1], a[3], a[5], a[7], ili.pixelsX)
         iy == findTS_calibration_Axis(a[2], a[4], a[6], a[8], ili.pixelsY)
     IN  \E ux \in ConversionOutcomes(fx), uy \in ConversionOutcomes(fy),
            vx \in ConversionOutcomes(ix), vy \in ConversionOutcomes(iy) :
              out' = PairResults(FoundBounds(fx, fy, ux, uy),
                                 FoundBounds(ix, iy, vx, vy))
  /\ op' = Both("findTS_calibration")
  /\ UNCHANGED << now, envVars, began, calVars, paramVars, timerVars,
                  pixelVars, ili, ret, prev, fault, histVars >>

PairOffsets == {10}

NextPair ==
  \/ \E r \in Rotations : SetRotation(r)
  \/ PairBegin
  \/ \E c \in CalCalibrations : PairSetTS_calibration(c)
  \/ PairGetTS_calibration
  \/ \E pt \in MapPoints : PairMapToDisplay(pt)
  \/ \E pt \in DisplayPoints : PairMapToTS(pt)
  \/ \E o \in PairOffsets : PairGetCalibration_UL_LR(o)
  \/ \E a \in FindArgs : PairFindTS_calibration(a)

SpecPair == InitCal /\ [][NextPair]_vars

(***************************************************************************)
(* The event machine polled for ever. begin() is called once; the clock     *)
(* advances by LiveDelay ms before a poll or stands still, so two polls are *)
(* less than 2^32 ms apart and the clock wraps again and again. Polling     *)
(* continues and the clock keeps advancing: polls that find the clock       *)
(* advanced are weakly fair.                                                *)
(***************************************************************************)
LiveDelay == 2 ^ 30

NextLive ==
  \/ ~began /\ Begin(now)
  \/ \E prm \in TouchReleaseParams : SetTouchReleaseParams(now, prm)
  \/ \E c \in TouchCalibrations : SetTS_calibration(now, c)
  \/ Poll(now)
  \/ Poll(Later(LiveDelay))

SpecLive == Init /\ [][NextLive]_vars /\ WF_vars(Poll(Later(LiveDelay)))

(***************************************************************************)
(* Properties of the event machine.                                         *)
(***************************************************************************)
Polled == op = "getTouchEvent"

\* The pressure of the last poll lies strictly inside the band.
InBand == maxReleasePres < out.pres /\ out.pres < minTouchPres

\* C1: since begin(), the number of TS_TOUCH_EVENTs returned minus the number
\* of TS_RELEASE_EVENTs returned is 0 or 1 after every call, whatever the
\* pressures, the poll times and the setter calls made in between: the edge
\* events alternate, starting with a touch.
C1_EdgeEventsAlternate ==
  /\ edgeBalance \in {0, 1}
  /\ (Polled /\ ret = TS_TOUCH_EVENT) => edgeBalance = 1
  /\ (Polled /\ ret = TS_RELEASE_EVENT) => edgeBalance = 0

\* A release event that follows a touch event, with the debounce parameters
\* and the calibration changed by the setters since begin().
C1_Witness ==
  /\ Polled /\ ret = TS_RELEASE_EVENT /\ edgeBalance = 0
  /\ debounceMS_TR # U32(DEF_DEBOUNCE_MS_TR)
  /\ TS_LR_X = TS_UL_X

\* C2: an edge event is returned only when debounceMS_TR ms or more have
\* passed since the first poll of the run of polls whose pressure classified
\* opposite to the confirmed state.
C2_EdgeOnlyAfterDebounceSinceFirstDifferingPoll ==
  (Polled /\ ret \in EdgeEvents) =>
    /\ diffStart # NoTime
    /\ U32Geq(U32Sub(now, diffStart), debounceMS_TR)

\* C3, as stated: a poll reading a pressure strictly inside the band returns
\* the level of the confirmed state (TS_NO_TOUCH or TS_TOUCH_PRESENT), never
\* TS_UNCERTAIN.
C3_InBandReportsConfirmedLevel ==
  (Polled /\ InBand) =>
    ret = (IF lastEventWasTouch THEN TS_TOUCH_PRESENT ELSE TS_NO_TOUCH)

\* C3, amended: a poll reading a pressure strictly inside the band returns
\* TS_UNCERTAIN, whichever the confirmed state is.
C3_InBandReportsUncertain ==
  (Polled /\ InBand) => ret = TS_UNCERTAIN

\* Confirmed NoTouch, max release 0, min touch 5, pressure 3: TS_UNCERTAIN.
C3_Witness ==
  /\ Polled /\ ~lastEventWasTouch
  /\ maxReleasePres = 0 /\ minTouchPres = 5 /\ out.pres = 3
  /\ ret = TS_UNCERTAIN

\* C4: a poll that returns no edge event returns the classification of the
\* pressure it read alone: TS_TOUCH_PRESENT from min touch up, TS_NO_TOUCH up
\* to max release (below min touch), TS_UNCERTAIN strictly between the two.
C4_LevelIsRawClassification ==
  (Polled /\ ret \notin EdgeEvents) =>
    /\ (out.pres >= minTouchPres) => ret = TS_TOUCH_PRESENT
    /\ (out.pres <= maxReleasePres /\ out.pres < minTouchPres) => ret = TS_NO_TOUCH
    /\ InBand => ret = TS_UNCERTAIN

\* A release not yet debounced: confirmed Touch, the poll returns TS_NO_TOUCH.
C4_Witness ==
  /\ Polled /\ lastEventWasTouch
  /\ out.pres <= maxReleasePres /\ out.pres < minTouchPres
  /\ ret = TS_NO_TOUCH

\* C5, as stated: the poll following a poll that returned an edge event
\* returns a level state.
C5_PollAfterEdgeIsLevel ==
  (Polled /\ prevEdge # NoEdge) => ret \in LevelStates

\* C5, amended: the poll following a poll that returned an edge event returns
\* a level state when it is made less than debounceMS_TR ms after it.
C5_PollSoonAfterEdgeIsLevel ==
  (Polled /\ prevEdge # NoEdge /\ U32Lt(prevEdge[2], debounceMS_TR)) =>
    ret \in LevelStates

\* The poll after a TS_TOUCH_EVENT reads a release pressure before the
\* debounce time is over: TS_NO_TOUCH, the confirmed state still Touch.
C5_Witness ==
  /\ Polled /\ prevEdge # NoEdge /\ prevEdge[1] = TS_TOUCH_EVENT
  /\ U32Lt(prevEdge[2], debounceMS_TR)
  /\ out.pres <= maxReleasePres /\ out.pres < minTouchPres
  /\ ret = TS_NO_TOUCH /\ lastEventWasTouch

\* The last call was a poll that read a pressure of at most max release
\* (at least min touch).
ReleasePressure == Polled => out.pres <= maxReleasePres
TouchPressure == Polled => out.pres >= minTouchPres

\* C6: if from some poll on every poll reads a pressure of at most max
\* release, every TS_TOUCH_EVENT is eventually followed by a
\* TS_RELEASE_EVENT; and if from some poll on every poll reads a pressure of
\* at least min touch, every TS_RELEASE_EVENT is eventually followed by a
\* TS_TOUCH_EVENT.
C6_OppositeEventFollows ==
  /\ (<>[]ReleasePressure) =>
       [](ret = TS_TOUCH_EVENT => <>(ret = TS_RELEASE_EVENT))
  /\ (<>[]TouchPressure) =>
       [](ret = TS_RELEASE_EVENT => <>(ret = TS_TOUCH_EVENT))


(***************************************************************************)
(* Properties of the coordinate mapping (SpecMap).                          *)
(***************************************************************************)
\* C7: after begin() with display rotation r the calibration bounds
\* <<ulX, ulY, lrX, lrY>> are <<3820, 3930, 295, 395>> for r = 0,
\* <<3820, 3800, 295, 275>> for r = 1, <<3800, 3800, 275, 275>> for r = 2 and
\* <<3800, 3930, 275, 395>> for r = 3, whatever they were before the call,
\* in TS_Display and in TS_ILI9341_map, and the upper-left bound is above the
\* lower-right bound on both axes.
C7_BeginSeedsRotationDefaults ==
  LET table == [r \in Rotations |->
                  CASE r = 0 -> << 3820, 3930, 295, 395 >>
                    [] r = 1 -> << 3820, 3800, 295, 275 >>
                    [] r = 2 -> << 3800, 3800, 275, 275 >>
                    [] r = 3 -> << 3800, 3930, 275, 395 >>]
  IN  /\ op = "begin" =>
           /\ << TS_UL_X, TS_UL_Y, TS_LR_X, TS_LR_Y >> = table[rotation]
           /\ TS_UL_X > TS_LR_X /\ TS_UL_Y > TS_LR_Y
      /\ op = "TS_ILI9341_map::begin" =>
           /\ << ili.TS_UL_X, ili.TS_UL_Y, ili.TS_LR_X, ili.TS_LR_Y >>
                = table[rotation]
           /\ ili.TS_UL_X > ili.TS_LR_X /\ ili.TS_UL_Y > ili.TS_LR_Y

\* begin() at rotation 1 has just replaced bounds setTS_calibration had set.
C7_Witness ==
  /\ op = "begin" /\ rotation = 1
  /\ out.prior = << 3900, 3700, 300, 400 >>
  /\ << TS_UL_X, TS_UL_Y, TS_LR_X, TS_LR_Y >> = << 3820, 3800, 295, 275 >>

\* The pixel coordinate n / d of a forward mapping is a value of int16_t.
FitsInt16(n, d) == Abs(n) < 32768 * Abs(d)

\* Sensor units one pixel covers, rounded up.
UnitsPerPixel(span, pixels) == (Abs(span) + pixels - 1) \div pixels

\* The forward mapping of sensor coordinate s under the bounds ul, lr and the
\* pixel extent pixels, followed by the reverse mapping of its result, gave
\* back: it is within tol of s.
Recovered(s, back, ul, lr, pixels, tol) ==
  (ul # lr /\ pixels > 0 /\ FitsInt16((s - ul) * pixels, lr - ul))
    => Abs(back - s) <= tol

\* The last call was the reverse mapping of the point the forward mapping,
\* called just before it, returned.
RoundTrip ==
  /\ op = "mapDisplayToTS" /\ prev.op = "mapTStoDisplay"
  /\ out.x = prev.out.x /\ out.y = prev.out.y

IliRoundTrip ==
  /\ op = "TS_ILI9341_map::mapTFT_to_TS"
  /\ prev.op = "TS_ILI9341_map::mapTS_to_TFT"
  /\ out.x = prev.out.x /\ out.y = prev.out.y

SensorRange == 0 .. 4095

\* C8 as claimed: for bounds with ulX # lrX and ulY # lrY and a sensor point
\* in 0..4095, mapDisplayToTS applied to the result of mapTStoDisplay
\* recovers each sensor coordinate within 1 unit (in both classes).
C8_RoundTripWithinOne ==
  /\ (RoundTrip /\ TS_UL_X # TS_LR_X /\ TS_UL_Y # TS_LR_Y
        /\ prev.out.TSx \in SensorRange /\ prev.out.TSy \in SensorRange)
       => /\ Abs(out.TSx - prev.out.TSx) <= 1
          /\ Abs(out.TSy - prev.out.TSy) <= 1
  /\ (IliRoundTrip /\ ili.TS_UL_X # ili.TS_LR_X /\ ili.TS_UL_Y # ili.TS_LR_Y
        /\ prev.out.TSx \in SensorRange /\ prev.out.TSy \in SensorRange)
       => /\ Abs(out.TSx - prev.out.TSx) <= 1
          /\ Abs(out.TSy - prev.out.TSy) <= 1

\* C8 as the code has it: once begin() has set the pixel extents, for bounds
\* with ul # lr on an axis and a sensor coordinate whose pixel image is a
\* value of int16_t, mapDisplayToTS applied to the result of mapTStoDisplay
\* recovers the coordinate within ceil(|lr - ul| / pixels) units, the sensor
\* units one pixel covers (in both classes; within 1 unit only where the
\* bounds are at most pixels apart).
C8_RoundTripWithinOnePixel ==
  /\ RoundTrip =>
       /\ Recovered(prev.out.TSx, out.TSx, TS_UL_X, TS_LR_X, pixelsX,
                    UnitsPerPixel(TS_LR_X - TS_UL_X, pixelsX))
       /\ Recovered(prev.out.TSy, out.TSy, TS_UL_Y, TS_LR_Y, pixelsY,
                    UnitsPerPixel(TS_LR_Y - TS_UL_Y, pixelsY))
  /\ IliRoundTrip =>
       /\ Recovered(prev.out.TSx, out.TSx, ili.TS_UL_X, ili.TS_LR_X,
                    ili.pixelsX,
                    UnitsPerPixel(ili.TS_LR_X - ili.TS_UL_X, ili.pixelsX))
       /\ Recovered(prev.out.TSy, out.TSy, ili.TS_UL_Y, ili.TS_LR_Y,
                    ili.pixelsY,
                    UnitsPerPixel(ili.TS_LR_Y - ili.TS_UL_Y, ili.pixelsY))

\* Sensor x 3790 under the bounds 3800 -> 275 on 240 pixels went to pixel 0
\* and came back as 3800.
C8_Witness ==
  /\ RoundTrip
  /\ TS_UL_X = 3800 /\ TS_LR_X = 275 /\ pixelsX = 240
  /\ prev.out.TSx = 3790 /\ out.x = 0 /\ out.TSx = 3800

\* q is the quotient n / d truncated toward zero (rounded to nearest).
IsTruncated(q, n, d) ==
  /\ Abs(q) * Abs(d) <= Abs(n)
  /\ Abs(n) < (Abs(q) + 1) * Abs(d)
  /\ q # 0 => ((q < 0) <=> ((n < 0) # (d < 0)))

IsNearest(q, n, d) == 2 * Abs(q * d - n) <= Abs(d)

\* s lies strictly beyond bound b, seen from the other bound.
Beyond(s, b, other) == (b < other /\ s < b) \/ (b > other /\ s > b)

\* C9 as claimed: mapTStoDisplay returns
\* round((sensorX - ulX) * pixelsX / (lrX - ulX)), rounded to nearest, the
\* same for Y, and a sensor value outside the interval between the bounds
\* yields a pixel value outside [0, pixelsX).
C9_ForwardMapRoundsToNearest ==
  op = "mapTStoDisplay" =>
    /\ (TS_UL_X # TS_LR_X
          /\ FitsInt16((out.TSx - TS_UL_X) * pixelsX, TS_LR_X - TS_UL_X))
         => /\ IsNearest(out.x, (out.TSx - TS_UL_X) * pixelsX,
                         TS_LR_X - TS_UL_X)
            /\ (Beyond(out.TSx, TS_UL_X, TS_LR_X)
                  \/ Beyond(out.TSx, TS_LR_X, TS_UL_X))
                 => out.x \notin 0 .. (pixelsX - 1)
    /\ (TS_UL_Y # TS_LR_Y
          /\ FitsInt16((out.TSy - TS_UL_Y) * pixelsY, TS_LR_Y - TS_UL_Y))
         => /\ IsNearest(out.y, (out.TSy - TS_UL_Y) * pixelsY,
                         TS_LR_Y - TS_UL_Y)
            /\ (Beyond(out.TSy, TS_UL_Y, TS_LR_Y)
                  \/ Beyond(out.TSy, TS_LR_Y, TS_UL_Y))
                 => out.y \notin 0 .. (pixelsY - 1)

\* C9 as the code has it: for bounds with ul # lr on an axis and a sensor
\* coordinate whose pixel image is a value of int16_t, mapTStoDisplay returns
\* (sensor - ul) * pixels / (lr - ul) truncated toward zero, unclamped: a
\* sensor value beyond lr yields a pixel of at least pixels, one beyond ul a
\* pixel of at most 0 (0 itself while the value is less than one pixel
\* beyond ul).
C9_ForwardMapTruncates ==
  op = "mapTStoDisplay" =>
    /\ (TS_UL_X # TS_LR_X
          /\ FitsInt16((out.TSx - TS_UL_X) * pixelsX, TS_LR_X - TS_UL_X))
         => /\ IsTruncated(out.x, (out.TSx - TS_UL_X) * pixelsX,
                           TS_LR_X - TS_UL_X)
            /\ Beyond(out.TSx, TS_LR_X, TS_UL_X) => out.x >= pixelsX
            /\ Beyond(out.TSx, TS_UL_X, TS_LR_X) => out.x <= 0
    /\ (TS_UL_Y # TS_LR_Y
          /\ FitsInt16((out.TSy - TS_UL_Y) * pixelsY, TS_LR_Y - TS_UL_Y))
         => /\ IsTruncated(out.y, (out.TSy - TS_UL_Y) * pixelsY,
                           TS_LR_Y - TS_UL_Y)
            /\ Beyond(out.TSy, TS_LR_Y, TS_UL_Y) => out.y >= pixelsY
            /\ Beyond(out.TSy, TS_UL_Y, TS_LR_Y) => out.y <= 0

\* Sensor y 274, one unit beyond the lower-right bound 275 of the bounds
\* 3800 -> 275 on 320 pixels, was mapped to pixel 320; sensor x 3801, one
\* unit beyond the upper-left bound, to pixel 0.
C9_Witness ==
  /\ op = "mapTStoDisplay"
  /\ TS_UL_X = 3800 /\ TS_LR_X = 275 /\ pixelsX = 240
  /\ TS_UL_Y = 3800 /\ TS_LR_Y = 275 /\ pixelsY = 320
  /\ out.TSx = 3801 /\ out.x = 0
  /\ out.TSy = 274 /\ out.y = 320

\* C10 as claimed: mapTStoDisplay(ulX, ulY) = (0, 0),
\* mapTStoDisplay(lrX, lrY) = (pixelsX - 1, pixelsY - 1),
\* mapDisplayToTS(0, 0) = (ulX, ulY) and
\* mapDisplayToTS(pixelsX - 1, pixelsY - 1) = (lrX, lrY).
C10_BoundsAreFirstAndLastPixel ==
  /\ (op = "mapTStoDisplay" /\ TS_UL_X # TS_LR_X /\ TS_UL_Y # TS_LR_Y) =>
       /\ (out.TSx = TS_UL_X /\ out.TSy = TS_UL_Y)
            => (out.x = 0 /\ out.y = 0)
       /\ (out.TSx = TS_LR_X /\ out.TSy = TS_LR_Y)
            => (out.x = pixelsX - 1 /\ out.y = pixelsY - 1)
  /\ (op = "mapDisplayToTS" /\ pixelsX > 0 /\ pixelsY > 0) =>
       /\ (out.x = 0 /\ out.y = 0)
            => (out.TSx = TS_UL_X /\ out.TSy = TS_UL_Y)
       /\ (out.x = pixelsX - 1 /\ out.y = pixelsY - 1)
            => (out.TSx = TS_LR_X /\ out.TSy = TS_LR_Y)

\* C10 as the code has it: the bounds are the sensor coordinates of the
\* pixel points (0, 0) and (pixelsX, pixelsY), one past the last pixel:
\* for bounds with ul # lr, mapTStoDisplay(ulX, ulY) = (0, 0) and
\* mapTStoDisplay(lrX, lrY) = (pixelsX, pixelsY); once begin() has set the
\* pixel extents, mapDisplayToTS(0, 0) = (ulX, ulY) and
\* mapDisplayToTS(pixelsX, pixelsY) = (lrX, lrY).
C10_BoundsAreOriginAndExtent ==
  /\ (op = "mapTStoDisplay" /\ TS_UL_X # TS_LR_X /\ TS_UL_Y # TS_LR_Y) =>
       /\ (out.TSx = TS_UL_X /\ out.TSy = TS_UL_Y)
            => (out.x = 0 /\ out.y = 0)
       /\ (out.TSx = TS_LR_X /\ out.TSy = TS_LR_Y)
            => (out.x = pixelsX /\ out.y = pixelsY)
  /\ (op = "mapDisplayToTS" /\ pixelsX > 0 /\ pixelsY > 0) =>
       /\ (out.x = 0 /\ out.y = 0)
            => (out.TSx = TS_UL_X /\ out.TSy = TS_UL_Y)
       /\ (out.x = pixelsX /\ out.y = pixelsY)
            => (out.TSx = TS_LR_X /\ out.TSy = TS_LR_Y)

\* The lower-right bound of the rotation 0 default was mapped to (240, 320).
C10_Witness ==
  /\ op = "mapTStoDisplay"
  /\ << TS_UL_X, TS_UL_Y, TS_LR_X, TS_LR_Y >> = << 3820, 3930, 295, 395 >>
  /\ pixelsX = 240 /\ pixelsY = 320
  /\ out.TSx = 295 /\ out.TSy = 395
  /\ out.x = 240 /\ out.y = 320


(***************************************************************************)
(* Properties of the calibration (SpecCal).                                 *)
(***************************************************************************)
\* The last call was findTS_calibration of TS_Display (of either class).
Found == op = "findTS_calibration"
FoundAny == op \in {"findTS_calibration", "TS_ILI9341_map::findTS_calibration"}

\* The arguments of the findTS_calibration call just made.
FoundArgs ==
  << out.x_UL, out.y_UL, out.x_LR, out.y_LR,
     out.TSx_UL, out.TSy_UL, out.TSx_LR, out.TSy_LR >>

\* The current bounds are the defaults begin() seeded for the rotation.
DefaultBounds ==
  /\ began /\ pixelsX = width /\ pixelsY = height
  /\ << TS_UL_X, TS_UL_Y, TS_LR_X, TS_LR_Y >> = DefaultCalibration(rotation)

\* Each bound findTS_calibration returned is within tol of the current one.
BoundsRecovered(tol) ==
  /\ Abs(out.TS_UL_X - TS_UL_X) <= tol /\ Abs(out.TS_UL_Y - TS_UL_Y) <= tol
  /\ Abs(out.TS_LR_X - TS_LR_X) <= tol /\ Abs(out.TS_LR_Y - TS_LR_Y) <= tol

\* pixelOffset is at most a quarter of the shorter side of the display.
NearEdge(pixelOffset) ==
  4 * pixelOffset <= pixelsX /\ 4 * pixelOffset <= pixelsY

\* C11 as claimed: with the default bounds B of the rotation, findTS_calibration
\* given the reference points of GetCalibration_UL_LR(offset), for any
\* offset, and their touchscreen coordinates under B (mapDisplayToTS) returns
\* bounds that differ from B by at most 1 each.
C11_ReferencePointsRecoverBounds ==
  (Found /\ DefaultBounds /\ \E o \in Offsets : FoundArgs = ReferenceArgs(o))
    => BoundsRecovered(1)

\* C11 as the code has it: the same for an offset of at most a quarter of
\* the shorter side of the display (up to 60 on 240 x 320); with the
\* reference points closer together the bounds returned are further off.
C11_NearEdgeReferencePointsRecoverBounds ==
  (Found /\ DefaultBounds
     /\ \E o \in Offsets : NearEdge(o) /\ FoundArgs = ReferenceArgs(o))
    => BoundsRecovered(1)

\* At rotation 0 the reference points of offset 50 gave back the lower-right
\* x bound 296 for 295 and the other three bounds as they are.
C11_Witness ==
  /\ Found /\ DefaultBounds /\ rotation = 0
  /\ FoundArgs = ReferenceArgs(50)
  /\ out.TS_LR_X = 296 /\ TS_LR_X = 295
  /\ << out.TS_UL_X, out.TS_UL_Y, out.TS_LR_Y >> = << 3820, 3930, 395 >>

\* C12: findTS_calibration (of either class) called with two points that
\* have the same display x or the same display y executes no division by
\* zero and returns no bound converted from an infinity or a NaN.
C12_CoincidingPointsRejected ==
  (FoundAny /\ (out.x_UL = out.x_LR \/ out.y_UL = out.y_LR))
    => (~out.divZero /\ ~out.undefined)

\* C13: the stored configuration has min touch pressure above max release
\* pressure.
C13_StoredParamsKeepBand == minTouchPres > maxReleasePres

\* C14: no call of getTouchEvent, mapTStoDisplay or mapDisplayToTS divides
\* by zero.
C14_NoCallDividesByZero ==
  /\ op \in {"getTouchEvent", "mapTStoDisplay"} => ~TStoDisplayDividesByZero
  /\ op = "mapDisplayToTS" => ~DisplayToTSDividesByZero

\* C15: a call of findTS_calibration leaves the bounds, the pixel extents,
\* the debounce parameters and the debounce state as they are, so what
\* getTS_calibration and mapTStoDisplay return stays the same.
C15_FindTS_calibrationOnlyWritesOutputs ==
  [][op' = "findTS_calibration" =>
       /\ UNCHANGED << calVars, pixelVars, paramVars, timerVars, began >>
       /\ \A pt \in MapPoints :
            mapTStoDisplay(pt[1], pt[2], 0, 0)' = mapTStoDisplay(pt[1], pt[2], 0, 0)]_vars

\* findTS_calibration returned bounds that are not the current ones.
C15_Witness ==
  /\ Found /\ ~out.undefined
  /\ << out.TS_UL_X, out.TS_UL_Y, out.TS_LR_X, out.TS_LR_Y >>
       = << 3820, 3930, 296, 395 >>
  /\ << TS_UL_X, TS_UL_Y, TS_LR_X, TS_LR_Y >> = << 3820, 3930, 295, 395 >>

\* C16: getTS_calibration called right after setTS_calibration returns the
\* four values set, each under its own parameter, and setTS_calibration
\* changes the four bounds only (in both classes).
C16_GetReturnsWhatSetStored ==
  /\ []((op = "getTS_calibration" /\ prev.op = "setTS_calibration")
          => out = prev.out)
  /\ []((op = "TS_ILI9341_map::getTS_calibration"
           /\ prev.op = "TS_ILI9341_map::setTS_calibration") => out = prev.out)
  /\ [][op' = "setTS_calibration" =>
          /\ << TS_LR_X', TS_LR_Y', TS_UL_X', TS_UL_Y' >>
               = << out'.TS_LR_X, out'.TS_LR_Y, out'.TS_UL_X, out'.TS_UL_Y >>
          /\ UNCHANGED << began, pixelVars, paramVars, timerVars, ili >>]_vars
  /\ [][op' = "TS_ILI9341_map::setTS_calibration" =>
          /\ << ili'.TS_LR_X, ili'.TS_LR_Y, ili'.TS_UL_X, ili'.TS_UL_Y >>
               = << out'.TS_LR_X, out'.TS_LR_Y, out'.TS_UL_X, out'.TS_UL_Y >>
          /\ ili'.pixelsX = ili.pixelsX /\ ili'.pixelsY = ili.pixelsY
          /\ ili'.began = ili.began
          /\ UNCHANGED << began, calVars, pixelVars, paramVars, timerVars >>]_vars

\* getTS_calibration returned the bounds LR = 3800, UL = 275 that
\* setTS_calibration had just set, replacing other bounds.
C16_Witness ==
  /\ op = "getTS_calibration" /\ prev.op = "setTS_calibration"
  /\ << prev.out.TS_LR_X, prev.out.TS_LR_Y, prev.out.TS_UL_X, prev.out.TS_UL_Y >>
       = << 3800, 3800, 275, 275 >>
  /\ << out.TS_LR_X, out.TS_LR_Y, out.TS_UL_X, out.TS_UL_Y >>
       = << 3800, 3800, 275, 275 >>

\* C17: GetCalibration_UL_LR(pixelOffset) returns ul = (pixelOffset,
\* pixelOffset) and lr = (pixelsX - pixelOffset - 1, pixelsY - pixelOffset - 1),
\* pixelsX and pixelsY being the width and height of the display once
\* begin() has been called; on 320 x 240 with offset 10 these are (10, 10)
\* and (309, 229) (in both classes).
C17_ReferencePointsInsetFromCorners ==
  /\ op = "GetCalibration_UL_LR" =>
       /\ out.x_UL = out.pixelOffset /\ out.y_UL = out.pixelOffset
       /\ out.x_LR = pixelsX - out.pixelOffset - 1
       /\ out.y_LR = pixelsY - out.pixelOffset - 1
       /\ began => (pixelsX = width /\ pixelsY = height)
       /\ (began /\ width = 320 /\ height = 240 /\ out.pixelOffset = 10)
            => << out.x_UL, out.y_UL, out.x_LR, out.y_LR >> = << 10, 10, 309, 229 >>
  /\ op = "TS_ILI9341_map::GetCalibration_UL_LR" =>
       /\ out.x_UL = out.pixelOffset /\ out.y_UL = out.pixelOffset
       /\ out.x_LR = ili.pixelsX - out.pixelOffset - 1
       /\ out.y_LR = ili.pixelsY - out.pixelOffset - 1
       /\ ili.began => (ili.pixelsX = width /\ ili.pixelsY = height)
       /\ (ili.began /\ width = 320 /\ height = 240 /\ out.pixelOffset = 10)
            => << out.x_UL, out.y_UL, out.x_LR, out.y_LR >> = << 10, 10, 309, 229 >>

\* On the display turned to 320 x 240, offset 10 gave (10, 10), (309, 229).
C17_Witness ==
  /\ op = "GetCalibration_UL_LR" /\ began /\ pixelsX = 320 /\ pixelsY = 240
  /\ out = [pixelOffset |-> 10, x_UL |-> 10, y_UL |-> 10, x_LR |-> 309, y_LR |-> 229]

\* C18: after construction or begin() the confirmed state is NoTouch and the
\* debounce timer starts at that moment; the first edge event returned after
\* begin() is TS_TOUCH_EVENT, and it is returned no earlier than debounceMS_TR
\* ms after begin().
C18_FirstEdgeIsTouchAfterDebounce ==
  /\ op \in {"construct", "begin"} =>
       (~lastEventWasTouch /\ msTime = now /\ timerStart = now)
  /\ (Polled /\ edgePoll # NoEdge /\ beganAt # NoTime) =>
       /\ ret = TS_TOUCH_EVENT
       /\ U32Geq(U32Sub(now, beganAt), debounceMS_TR)

\* The first edge event after begin() came exactly the default debounce time
\* after it.
C18_Witness ==
  /\ Polled /\ ret = TS_TOUCH_EVENT /\ beganAt # NoTime
  /\ debounceMS_TR = U32(DEF_DEBOUNCE_MS_TR)
  /\ U32Sub(now, beganAt) = debounceMS_TR
  /\ U32Geq(now, beganAt)

\* The candidate state of a poll that read pressure z.
Candidate(z, last, minP, maxP) ==
  IF z >= minP THEN TRUE ELSE IF z <= maxP THEN FALSE ELSE last

\* Milliseconds that truly passed between the start of the timer and the call
\* being made, both counted from construction.
TrueElapsed == Ms(U32Sub(now', t0)) - Ms(U32Sub(timerStart, t0))

\* C19: when the 32-bit clock wrapped between the start of the debounce timer
\* and a poll, the poll returns an edge event exactly when its candidate
\* differs from the confirmed state and the true elapsed time is at least
\* debounceMS_TR: the wrap neither fires an event early nor withholds one.
C19_ExpiryTestSurvivesWrap ==
  [][(op' = "getTouchEvent" /\ U32Lt(now', timerStart)) =>
       (ret' \in EdgeEvents <=>
          /\ Candidate(out'.pres, lastEventWasTouch, minTouchPres,
                       maxReleasePres) # lastEventWasTouch
          /\ TrueElapsed >= Ms(debounceMS_TR))]_vars

\* begin() ran before the wrap and the touch event was returned after it,
\* exactly the default debounce time later.
C19_Witness ==
  /\ Polled /\ ret = TS_TOUCH_EVENT /\ beganAt # NoTime
  /\ debounceMS_TR = U32(DEF_DEBOUNCE_MS_TR)
  /\ U32Sub(now, beganAt) = debounceMS_TR
  /\ U32Lt(now, beganAt)

\* C20: a poll returns an edge event if and only if its candidate state
\* differs from the confirmed state and now - timerStart >= debounceMS_TR,
\* timerStart being the time of the latest of begin(), a poll whose candidate
\* equalled the confirmed state and an edge event (the timer the program
\* keeps); a poll whose candidate differs while the dwell has not expired
\* changes neither the timer nor the confirmed state.
C20_EdgeIffDiffersAndDwellExpired ==
  [][op' = "getTouchEvent" =>
       LET differs == Candidate(out'.pres, lastEventWasTouch, minTouchPres,
                                maxReleasePres) # lastEventWasTouch
           expired == U32Geq(U32Sub(now', timerStart), debounceMS_TR)
       IN  /\ ret' \in EdgeEvents <=> (differs /\ expired)
           /\ (differs /\ ~expired) => UNCHANGED timerVars
           /\ msTime = timerStart /\ msTime' = timerStart']_vars

\* A poll read a touch 5 ms into the dwell: it was withheld and the timer
\* and the confirmed state NoTouch stayed.
C20_Witness ==
  /\ Polled /\ ret = TS_TOUCH_PRESENT /\ ~lastEventWasTouch
  /\ out.pres >= minTouchPres
  /\ U32Sub(now, timerStart) = U32(5)
  /\ U32Lt(U32(5), debounceMS_TR)
  /\ msTime = timerStart

\* C21: in a poll the confirmed state changes exactly when the poll returns
\* an edge event; the event is TS_TOUCH_EVENT when the state becomes touch
\* and TS_RELEASE_EVENT when it becomes no-touch, and that poll sets the
\* timer to now. A poll returning a level state, setTouchReleaseParams and
\* setTS_calibration leave the confirmed state as it was.
C21_ConfirmedStateFlipsWithEdgeEvent ==
  [][/\ op' = "getTouchEvent" =>
          /\ (lastEventWasTouch' # lastEventWasTouch) <=> (ret' \in EdgeEvents)
          /\ ret' = TS_TOUCH_EVENT => (lastEventWasTouch' /\ msTime' = now')
          /\ ret' = TS_RELEASE_EVENT => (~lastEventWasTouch' /\ msTime' = now')
          /\ ret' \in LevelStates => UNCHANGED lastEventWasTouch
     /\ op' \in {"setTouchReleaseParams", "setTS_calibration"} =>
          UNCHANGED lastEventWasTouch]_vars

\* A poll returned TS_RELEASE_EVENT: the confirmed state is no-touch, the
\* timer is now, and the touch event before it is balanced.
C21_Witness ==
  /\ Polled /\ ret = TS_RELEASE_EVENT
  /\ ~lastEventWasTouch /\ msTime = now /\ edgeBalance = 0

\* The two-point linear fit through (ul, TSul) and (lr, TSlr) at pixel to,
\* in exact arithmetic, truncated toward zero.
ExactFit(ul, lr, TSul, TSlr, to) ==
  TruncDiv(TSul * (lr - ul) + (to - ul) * (TSlr - TSul), lr - ul)

\* The bounds findTS_calibration returned are the exact fits at pixel 0 and
\* at the pixel extents pX, pY.
FoundExactFit(pX, pY) ==
  /\ out.TS_UL_X = ExactFit(out.x_UL, out.x_LR, out.TSx_UL, out.TSx_LR, 0)
  /\ out.TS_LR_X = ExactFit(out.x_UL, out.x_LR, out.TSx_UL, out.TSx_LR, pX)
  /\ out.TS_UL_Y = ExactFit(out.y_UL, out.y_LR, out.TSy_UL, out.TSy_LR, 0)
  /\ out.TS_LR_Y = ExactFit(out.y_UL, out.y_LR, out.TSy_UL, out.TSy_LR, pY)

\* C22: findTS_calibration returns, on each axis, the linear fit through the
\* two points extrapolated to pixel 0 and to pixel pixelsX (pixelsY), the
\* scale not being truncated to an integer, each value truncated toward
\* zero; TS_ILI9341_map::findTS_calibration returns the same for the same
\* arguments and pixel extents.
C22_BoundsAreTruncatedLinearFit ==
  /\ (op = "findTS_calibration" /\ out.x_UL # out.x_LR /\ out.y_UL # out.y_LR)
       => FoundExactFit(pixelsX, pixelsY)
  /\ (op = "TS_ILI9341_map::findTS_calibration"
        /\ out.x_UL # out.x_LR /\ out.y_UL # out.y_LR)
       => FoundExactFit(ili.pixelsX, ili.pixelsY)

\* C23: on every poll, whatever it returns, pres is the z of the sample read,
\* (x, y) is what mapTStoDisplay gives for the sample's (x, y) under the
\* calibration in force, *px and *py, when given, receive the sample's raw
\* x and y, and the calibration bounds, the pixel extents and the debounce
\* parameters are left as they were.
C23_PollReportsSampleAndKeepsSettings ==
  [][op' = "getTouchEvent" =>
       /\ ret' \in eTouchEvent
       /\ out'.pres = out'.sample[3]
       /\ \E dzx \in DivOutcomes(TS_UL_X, TS_LR_X),
             dzy \in DivOutcomes(TS_UL_Y, TS_LR_Y) :
            << out'.x, out'.y >>
              = mapTStoDisplay(out'.sample[1], out'.sample[2], dzx, dzy)
       /\ out'.raw => (out'.px = << out'.sample[1] >>
                         /\ out'.py = << out'.sample[2] >>)
       /\ ~out'.raw => (out'.px = << >> /\ out'.py = << >>)
       /\ UNCHANGED << calVars, pixelVars, paramVars >>]_vars

\* A poll that returned an edge event with px and py given: under the
\* default calibration of rotation 1 the sample (3790, 290, 10) was reported
\* at its pixel with the raw coordinates.
C23_Witness ==
  /\ Polled /\ ret = TS_TOUCH_EVENT /\ out.raw
  /\ out.sample = << 3790, 290, 10 >>
  /\ out.pres = 10 /\ out.px = << 3790 >> /\ out.py = << 290 >>
  /\ << TS_UL_X, TS_UL_Y, TS_LR_X, TS_LR_Y >> = DefaultCalibration(rotation)
  /\ << out.x, out.y >> = mapTStoDisplay(3790, 290, 0, 0)

\* The last step made the same call on both classes.
Paired == op \in { Both(n) : n \in {"begin", "setTS_calibration",
                     "getTS_calibration", "mapTStoDisplay", "mapDisplayToTS",
                     "GetCalibration_UL_LR", "findTS_calibration"} }

C25_EdgeEventsDebounceApart ==
  (Polled /\ ret \in EdgeEvents /\ edgeGap # NoGap)
    => edgeGap >= Ms(debounceMS_TR)

\* A release event returned exactly the default debounce time after the
\* touch event before it, no setter called since begin().
C25_Witness ==
  /\ Polled /\ ret = TS_RELEASE_EVENT
  /\ debounceMS_TR = U32(DEF_DEBOUNCE_MS_TR)
  /\ edgeGap = DEF_DEBOUNCE_MS_TR
  /\ << TS_UL_X, TS_UL_Y, TS_LR_X, TS_LR_Y >> = DefaultCalibration(rotation)
  /\ << minTouchPres, maxReleasePres >>
       = << DEF_MIN_TOUCH_PRES, DEF_MAX_RELEASE_PRES >>

\* C26: a poll whose pressure lies strictly inside the band takes the
\* confirmed state as its candidate: it returns no edge event, keeps the
\* confirmed state and restarts the debounce timer, also while a transition
\* is pending; so a poll made less than debounceMS_TR after an in-band poll
\* returns no edge event (readings alternating between touch and in-band at
\* such intervals never give TS_TOUCH_EVENT), and a poll whose candidate
\* differs from the confirmed state never returns TS_UNCERTAIN.
C26_InBandPollRestartsDebounce ==
  [][op' = "getTouchEvent" =>
       /\ (maxReleasePres < out'.pres /\ out'.pres < minTouchPres) =>
            /\ Candidate(out'.pres, lastEventWasTouch, minTouchPres,
                         maxReleasePres) = lastEventWasTouch
            /\ ret' \notin EdgeEvents
            /\ UNCHANGED lastEventWasTouch
            /\ msTime' = now'
       /\ (op = "getTouchEvent" /\ InBand
             /\ U32Lt(U32Sub(now', now), debounceMS_TR)) =>
            ret' \notin EdgeEvents
       /\ Candidate(out'.pres, lastEventWasTouch, minTouchPres,
                    maxReleasePres) # lastEventWasTouch =>
            ret' # TS_UNCERTAIN]_vars

\* An in-band poll 25 ms after begin(), no touch event returned so far: it
\* returned TS_UNCERTAIN and restarted the timer.
C26_Witness ==
  /\ Polled /\ InBand /\ ret = TS_UNCERTAIN
  /\ ~lastEventWasTouch /\ msTime = now
  /\ beganAt # NoTime /\ U32Sub(now, beganAt) = U32(25)
  /\ debounceMS_TR = U32(DEF_DEBOUNCE_MS_TR)

\* The forward mapping just made closes a calibration: the bounds were found
\* from two display points inside the display that differ in x and in y and
\* from touchscreen points in 0..4095, were then set, and one of the two
\* touchscreen points was mapped.
LoopClosed ==
  /\ op = "mapTStoDisplay" /\ prev # NoCall
  /\ prev.out.x_UL # prev.out.x_LR /\ prev.out.y_UL # prev.out.y_LR
  /\ {prev.out.x_UL, prev.out.x_LR} \subseteq 0 .. (pixelsX - 1)
  /\ {prev.out.y_UL, prev.out.y_LR} \subseteq 0 .. (pixelsY - 1)
  /\ {prev.out.TSx_UL, prev.out.TSy_UL, prev.out.TSx_LR, prev.out.TSy_LR}
       \subseteq 0 .. 4095

\* C27: for display reference points inside the display with x_UL # x_LR and
\* y_UL # y_LR and touchscreen points in 0..4095, after setTS_calibration
\* with the bounds findTS_calibration returned, mapTStoDisplay of (TSx_UL,
\* TSy_UL) is within 1 pixel of (x_UL, y_UL) and mapTStoDisplay of (TSx_LR,
\* TSy_LR) is within 1 pixel of (x_LR, y_LR).
C27_CalibrationClosesLoop ==
  LoopClosed =>
    /\ << out.TSx, out.TSy >> = << prev.out.TSx_UL, prev.out.TSy_UL >> =>
         /\ Abs(out.x - prev.out.x_UL) <= 1
         /\ Abs(out.y - prev.out.y_UL) <= 1
    /\ << out.TSx, out.TSy >> = << prev.out.TSx_LR, prev.out.TSy_LR >> =>
         /\ Abs(out.x - prev.out.x_LR) <= 1
         /\ Abs(out.y - prev.out.y_LR) <= 1

==========================================================================
